---- MODULE Spec2Model ----
(***************************************************************************)
(* A model of PilotR (src/server/main.py): the file and process tools of   *)
(* the server.  The state is the PilotRServer object's                     *)
(* fields, the filesystem it works on and the process-wide current         *)
(* directory; there is one action per tool handler.                        *)
(*                                                                         *)
(* Representation.  A string that names a file is a sequence of tokens     *)
(* ("a.R" is <<"a", ".R">>, "../s.R" is <<"..", "/", "s", ".R">>), so that  *)
(* str.endswith, the '/' operator of pathlib and the glob match are        *)
(* computed and not assumed.  A path is a sequence of components, each a   *)
(* token sequence; the filesystem maps the paths that exist to nodes.      *)
(* An optional value is <<>> (None) or <<v>>.                              *)
(***************************************************************************)
EXTENDS Integers, Sequences, FiniteSets, TLC

VARIABLES
    fs,            \* the filesystem: path -> node
    workdir,       \* self.workdir: <<>> or <<path>>
    state_dir,     \* self.state_dir: <<>> or <<path>>
    state_file,    \* self.state_file: <<>> or <<path>>
    primary_file,  \* self.primary_file: a file name
    cwd,           \* os.getcwd() of the server process
    clock,         \* the wall clock read by datetime.now()
    save_pc,       \* position inside save_state (stepwise specification)
    save_doc,      \* the mapping save_state is writing (stepwise specification)
    run,           \* run_r_command under way and its child (stepwise specification)
    loop,          \* the event loop's tasks and the one that holds the thread
    last           \* the envelope of the last call and what the call did

vars == <<fs, workdir, state_dir, state_file, primary_file, cwd,
          save_pc, save_doc, run, loop, last>>

----------------------------------------------------------------------------
(* Bounds of the model *)

\* the server handles at most MaxClock calls, one per tick of the clock
MaxClock == 3
\* a script file holds at most MaxContent characters
MaxContent == 3
\* symbolic links followed while resolving one path
MaxLinks == 2

----------------------------------------------------------------------------
(* Tokens, names and paths *)

NoneV == <<>>
Some(x) == <<x>>
IsSet(o) == o # <<>>
The(o) == o[1]

SLASH == "/"
DOTDOT == ".."
STAR == "*"
NL == "NL"

Last(s) == s[Len(s)]
Front(s) == SubSeq(s, 1, Len(s) - 1)

\* str.endswith(('.R', '.r'))
EndsWithR(name) == Len(name) > 0 /\ Last(name) \in {".R", ".r"}

\* a rule that takes '.R' alone for the extension
NormalizeExt_upper(name) ==
    IF Len(name) > 0 /\ Last(name) = ".R" THEN name ELSE Append(name, ".R")

\* "if not filename.endswith(('.R', '.r')): filename += '.R'"
NormalizeExt(name) == IF EndsWithR(name) THEN name ELSE Append(name, ".R")

\* pathlib's parse of a string: the components between the separators,
\* empty ones dropped
RECURSIVE SplitFrom(_, _, _)
SplitFrom(name, i, cur) ==
    IF i > Len(name)
    THEN IF cur = <<>> THEN <<>> ELSE <<cur>>
    ELSE IF name[i] = SLASH
         THEN (IF cur = <<>> THEN <<>> ELSE <<cur>>) \o SplitFrom(name, i + 1, <<>>)
         ELSE SplitFrom(name, i + 1, Append(cur, name[i]))

Split(name) == SplitFrom(name, 1, <<>>)

IsAbsolute(name) == Len(name) > 0 /\ name[1] = SLASH

\* Path.__truediv__: "self.workdir / filename"
Join(dir, name) == IF IsAbsolute(name) THEN Split(name) ELSE dir \o Split(name)

\* PurePath.is_relative_to: a comparison of components, no filesystem access
IsRelativeTo(p, root) == Len(root) <= Len(p) /\ SubSeq(p, 1, Len(root)) = root

\* Path.with_suffix: the last suffix of the last component is replaced
WithSuffix(p, suffix) == Append(Front(p), Append(Front(Last(p)), suffix))

Parent(p) == IF p = <<>> THEN <<>> ELSE Front(p)

----------------------------------------------------------------------------
(* The filesystem *)

Dir == [kind |-> "dir"]
File(data) == [kind |-> "file", data |-> data]
Link(to) == [kind |-> "link", to |-> to]

Exists0(f, p) == p = <<>> \/ p \in DOMAIN f
KindAt(f, p) == IF p = <<>> THEN "dir" ELSE f[p].kind

\* The kernel's path walk (stat, open): every component but the last must
\* exist, symbolic links are followed, ".." is the parent of the directory
\* reached.  st is "ok" (path is the node reached), "missing" (all but the
\* last component exist: path is where the file would be created) or "error".
RECURSIVE OsWalk(_, _, _, _)
OsWalk(f, cur, rest, fuel) ==
    IF rest = <<>> THEN [st |-> "ok", path |-> cur]
    ELSE IF KindAt(f, cur) # "dir" THEN [st |-> "error", path |-> cur]
    ELSE IF Head(rest) = <<DOTDOT>> THEN OsWalk(f, Parent(cur), Tail(rest), fuel)
    ELSE LET p == Append(cur, Head(rest)) IN
         IF ~Exists0(f, p)
         THEN IF Tail(rest) = <<>> THEN [st |-> "missing", path |-> p]
                                   ELSE [st |-> "error", path |-> p]
         ELSE IF f[p].kind = "link"
              THEN IF fuel = 0 THEN [st |-> "error", path |-> p]
                   ELSE OsWalk(f, <<>>, f[p].to \o Tail(rest), fuel - 1)
              ELSE OsWalk(f, p, Tail(rest), fuel)

Stat(f, p) == OsWalk(f, <<>>, p, MaxLinks)

\* Path.exists, Path.is_dir, Path.is_file: errors of the walk read as False
PathExists(f, p) == Stat(f, p).st = "ok"
PathIsDir(f, p) == Stat(f, p).st = "ok" /\ KindAt(f, Stat(f, p).path) = "dir"
PathIsFile(f, p) == Stat(f, p).st = "ok" /\ KindAt(f, Stat(f, p).path) = "file"

\* Path.resolve() (strict=False): symbolic links are followed, ".." drops the
\* last component of what is resolved so far, a component that does not exist
\* is kept as written; a loop of links raises RuntimeError.
RECURSIVE PyResolve(_, _, _, _)
PyResolve(f, cur, rest, fuel) ==
    IF rest = <<>> THEN [ok |-> TRUE, path |-> cur]
    ELSE IF Head(rest) = <<DOTDOT>> THEN PyResolve(f, Parent(cur), Tail(rest), fuel)
    ELSE LET p == Append(cur, Head(rest)) IN
         IF Exists0(f, p) /\ KindAt(f, p) = "link"
         THEN IF fuel = 0 THEN [ok |-> FALSE, path |-> p]
              ELSE PyResolve(f, <<>>, f[p].to \o Tail(rest), fuel - 1)
         ELSE PyResolve(f, p, Tail(rest), fuel)

Resolve(f, p) == PyResolve(f, <<>>, p, MaxLinks)

----------------------------------------------------------------------------
(* Filesystem calls *)

FsPut(f, p, node) == [q \in DOMAIN f \cup {p} |-> IF q = p THEN node ELSE f[q]]
FsDel(f, p) == [q \in DOMAIN f \ {p} |-> f[q]]
\* shutil.rmtree from outside the server: p and everything below it
FsDelTree(f, p) == [q \in {x \in DOMAIN f : ~IsRelativeTo(x, p)} |-> f[q]]

\* Path.write_text / open(p, 'w'): the file reached through links is
\* truncated and written, or created when only the last component is missing
WriteText(f, p, data) ==
    LET r == Stat(f, p) IN
    IF r.st = "missing" \/ (r.st = "ok" /\ KindAt(f, r.path) = "file")
    THEN [ok |-> TRUE, fs |-> FsPut(f, r.path, File(data))]
    ELSE [ok |-> FALSE, fs |-> f]

\* Path.read_text
ReadText(f, p) ==
    LET r == Stat(f, p) IN
    IF r.st = "ok" /\ KindAt(f, r.path) = "file"
    THEN [ok |-> TRUE, data |-> f[r.path].data]
    ELSE [ok |-> FALSE, data |-> <<>>]

\* The directory entry a rename or an unlink acts on: the parent is walked,
\* the last component is not followed
Entry(f, p) ==
    LET d == Stat(f, Front(p)) IN
    IF p # <<>> /\ d.st = "ok" /\ KindAt(f, d.path) = "dir" /\ Last(p) # <<DOTDOT>>
    THEN [ok |-> TRUE, path |-> Append(d.path, Last(p))]
    ELSE [ok |-> FALSE, path |-> p]

\* Path.unlink
Unlink(f, p) ==
    LET e == Entry(f, p) IN
    IF e.ok /\ Exists0(f, e.path) /\ KindAt(f, e.path) # "dir"
    THEN [ok |-> TRUE, fs |-> FsDel(f, e.path)]
    ELSE [ok |-> FALSE, fs |-> f]

\* Path.rename / Path.replace (os.rename): the entry src is moved to dst,
\* replacing a file there; a directory in the way is an error
OsRename(f, src, dst) ==
    LET s == Entry(f, src)
        d == Entry(f, dst) IN
    IF s.ok /\ d.ok /\ Exists0(f, s.path) /\ KindAt(f, s.path) # "dir"
       /\ ~(Exists0(f, d.path) /\ KindAt(f, d.path) = "dir")
    THEN [ok |-> TRUE,
          fs |-> IF s.path = d.path THEN f
                 ELSE FsPut(FsDel(f, s.path), d.path, f[s.path])]
    ELSE [ok |-> FALSE, fs |-> f]

\* a mkdir that reports success and makes nothing
MkdirParents_nothing(f, p) == [ok |-> TRUE, fs |-> f]

\* Path.mkdir(parents=True, exist_ok=True) on a resolved path: the missing
\* directories are made; a component that is not a directory is an error
\* and nothing is made
MkdirParents(f, p) ==
    IF \E i \in 1..Len(p) : Exists0(f, SubSeq(p, 1, i)) /\ KindAt(f, SubSeq(p, 1, i)) # "dir"
    THEN [ok |-> FALSE, fs |-> f]
    ELSE [ok |-> TRUE,
          fs |-> [q \in DOMAIN f \cup {SubSeq(p, 1, i) : i \in 1..Len(p)} |->
                    IF q \in DOMAIN f THEN f[q] ELSE Dir]]

\* Path.mkdir(exist_ok=True): FileExistsError unless what exists is a directory
MkdirExistOk(f, p) ==
    LET r == Stat(f, p) IN
    IF r.st = "missing" THEN [ok |-> TRUE, fs |-> FsPut(f, r.path, Dir)]
    ELSE IF r.st = "ok" /\ KindAt(f, r.path) = "dir" THEN [ok |-> TRUE, fs |-> f]
    ELSE [ok |-> FALSE, fs |-> f]

----------------------------------------------------------------------------
(* The state document: Python values and their JSON text *)

\* A dict is its items in insertion order; json.load may also return a value
\* that is no dict (a document holding a JSON array)
PyDict(items) == [py |-> "dict", items |-> items]
PyList(items) == [py |-> "list", items |-> items]
EmptyDict == PyDict(<<>>)
IsDict(v) == v.py = "dict"

Item(k, v) == [k |-> k, v |-> v]
DictHas(d, k) == \E i \in 1..Len(d.items) : d.items[i].k = k
DictGet(d, k) == d.items[CHOOSE i \in 1..Len(d.items) : d.items[i].k = k].v
\* d[k] = v: a key already there keeps its place, a new key goes last
DictSet(d, k, v) ==
    IF DictHas(d, k)
    THEN PyDict([i \in 1..Len(d.items) |->
                   IF d.items[i].k = k THEN Item(k, v) ELSE d.items[i]])
    ELSE PyDict(Append(d.items, Item(k, v)))

\* The text of a document is a sequence of JSON tokens
Tok(t) == [t |-> t]
PairTok(it) == [t |-> "pair", k |-> it.k, v |-> it.v]
ElemTok(v) == [t |-> "elem", v |-> v]

\* json.dump(state, f, indent=2, default=str)
JsonDump(v) ==
    IF IsDict(v)
    THEN <<Tok("{")>> \o [i \in 1..Len(v.items) |-> PairTok(v.items[i])] \o <<Tok("}")>>
    ELSE <<Tok("[")>> \o [i \in 1..Len(v.items) |-> ElemTok(v.items[i])] \o <<Tok("]")>>

\* a Python dict built from the members of a JSON object in text order: a
\* name met again keeps its first place and takes the later value
RECURSIVE FromPairs(_, _)
FromPairs(pairs, n) ==
    IF n = 0 THEN EmptyDict
    ELSE DictSet(FromPairs(pairs, n - 1), pairs[n].k, pairs[n].v)

\* white space between the tokens of a text, which json.load skips and
\* json.dump(indent=2) lays out in one fixed way (modelled as none)
WS == Tok("ws")
NoWS(text) == SelectSeq(text, LAMBDA x : x.t # "ws")

\* json.load(f): the value, or JSONDecodeError for a text that is not one
\* complete document
JsonLoad(text) ==
    LET body == NoWS(text)
        n == Len(body)
        inner == SubSeq(body, 2, n - 1) IN
    IF n >= 2 /\ body[1].t = "{" /\ body[n].t = "}"
       /\ \A i \in 1..Len(inner) : inner[i].t = "pair"
    THEN [ok |-> TRUE, value |-> FromPairs(inner, Len(inner))]
    ELSE IF n >= 2 /\ body[1].t = "[" /\ body[n].t = "]"
            /\ \A i \in 1..Len(inner) : inner[i].t = "elem"
    THEN [ok |-> TRUE, value |-> PyList([i \in 1..Len(inner) |-> inner[i].v])]
    ELSE [ok |-> FALSE, value |-> EmptyDict]

\* PilotRServer.load_state
load_state(f, sf) ==
    IF ~IsSet(sf) \/ ~PathExists(f, The(sf)) THEN EmptyDict
    ELSE LET r == ReadText(f, The(sf)) IN
         IF ~r.ok THEN EmptyDict
         ELSE LET v == JsonLoad(r.data) IN
              IF v.ok THEN v.value ELSE EmptyDict

\* a save that writes into the state file itself
temp_file_in_place(sf) == The(sf)

\* temp_file = self.state_file.with_suffix('.tmp')
temp_file(sf) == WithSuffix(The(sf), ".tmp")

\* a save that writes the temporary file and never moves it into place
save_state_unmoved(f, sf, state, fault) ==
    IF ~IsSet(sf) THEN f
    ELSE WriteText(f, temp_file(sf), JsonDump(state)).fs

\* a save whose except block leaves the temporary file where it is
save_state_littering(f, sf, state, fault) ==
    IF ~IsSet(sf) THEN f
    ELSE LET w == WriteText(f, temp_file(sf),
                            IF fault = "write" THEN <<Tok("{")>> ELSE JsonDump(state))
             mv == OsRename(w.fs, temp_file(sf), The(sf)) IN
         IF ~w.ok THEN f
         ELSE IF fault = "none" /\ mv.ok THEN mv.fs
         ELSE w.fs

\* PilotRServer.save_state in one step.  fault is the I/O failure met, if
\* any: "none", "write" (json.dump raises after opening the temporary file)
\* or "replace" (the rename raises).
save_state(f, sf, state, fault) ==
    IF ~IsSet(sf) THEN f
    ELSE LET temp == temp_file(sf)
             w == WriteText(f, temp, IF fault = "write" THEN <<Tok("{")>> ELSE JsonDump(state))
             mv == OsRename(w.fs, temp, The(sf)) IN
         IF ~w.ok THEN f
         ELSE IF fault = "none" /\ mv.ok THEN mv.fs
         ELSE IF PathExists(w.fs, temp) THEN Unlink(w.fs, temp).fs ELSE w.fs

----------------------------------------------------------------------------
(* Program constants and the inputs the calls are drawn from *)

\* "agent.R", the primary file a new PilotRServer starts with
DefaultPrimary == <<"agent", ".R">>
\* R_SCAFFOLD: a string holding one newline
R_SCAFFOLD == <<NL>>

HOME == <<"home">>
PILOTR == <<".pilotr">>
STATE_JSON == <<"state", ".json">>
RDATA == <<".RData">>

ProjDir == <<HOME, <<"proj">>>>
NewDir == <<HOME, <<"new">>>>
BadDir == <<HOME, <<"bad">>>>
SecretFile == <<HOME, <<"secret", ".R">>>>

\* The disk the server starts on: a project directory holding a script and
\* a link that points out of it, a file beside it, and a directory whose
\* ".pilotr" is a regular file
InitFs ==
    (<<HOME>> :> Dir) @@ (ProjDir :> Dir) @@ (BadDir :> Dir)
    @@ (SecretFile :> File(<<"x">>))
    @@ (Append(ProjDir, <<"a", ".R">>) :> File(<<"x">>))
    @@ (Append(ProjDir, <<"lnk", ".R">>) :> Link(SecretFile))
    @@ (Append(BadDir, PILOTR) :> File(<<>>))

\* path arguments of set_workdir
DirArgs == {ProjDir, NewDir, BadDir, SecretFile, Append(SecretFile, <<"sub">>)}

\* filename arguments: "a", "agent.R", "../secret.R", "lnk.R"
FileArgs == {<<"a">>, <<"agent", ".R">>, <<DOTDOT, SLASH, "secret", ".R">>, <<"lnk", ".R">>}
\* code arguments: "" and "x"
CodeArgs == {<<>>, <<"x">>}

\* what can go wrong inside one save_state
SaveFaults == {"none", "write", "replace"}
\* the same, for a call: both failures leave the same files behind
FaultArgs == {"none", "replace"}

----------------------------------------------------------------------------
(* The envelope of a call, with what the call did *)

Res(op, args, names, ok, code) ==
    [op |-> op, args |-> args, names |-> names, ok |-> ok, code |-> code,
     save_called |-> FALSE, launched |-> FALSE, reads |-> {}, out |-> <<>>]

Ok(op, args, names) == Res(op, args, names, TRUE, "")
Err(op, args, names, code) == Res(op, args, names, FALSE, code)

\* The state a handler leaves
Out(f, wd, sd, sf, pf, cd, res) ==
    [fs |-> f, workdir |-> wd, state_dir |-> sd, state_file |-> sf,
     primary_file |-> pf, cwd |-> cd, last |-> res]

\* a handler that returns without having changed anything
Only(res) == Out(fs, workdir, state_dir, state_file, primary_file, cwd, res)
\* a handler that changed files only
Files(f, res) == Out(f, workdir, state_dir, state_file, primary_file, cwd, res)

Saved(res) == [res EXCEPT !.save_called = TRUE]

----------------------------------------------------------------------------
(* Session validation and the Path Guard *)

\* datetime.now() inside the call being handled
Now == clock + 1

\* a session check that does not look at the disk
ensure_workdir_set_unchecked == IF ~IsSet(workdir) THEN "NO_WORKDIR" ELSE ""

\* PilotRServer.ensure_workdir_set: "" when the session is valid
ensure_workdir_set ==
    IF ~IsSet(workdir) THEN "NO_WORKDIR"
    ELSE IF ~PathExists(fs, The(workdir)) THEN "WORKDIR_MISSING"
    ELSE ""

\* a guard that compares the path as written, without resolving it
is_safe_path_lexical(path) == IsSet(workdir) /\ IsRelativeTo(path, The(workdir))

\* a guard that lets every path through once a root is set
is_safe_path_open(path) == IsSet(workdir)

\* PilotRServer.is_safe_path
is_safe_path(path) ==
    IF ~IsSet(workdir) THEN FALSE
    ELSE LET resolved == Resolve(fs, path) IN
         resolved.ok /\ IsRelativeTo(resolved.path, The(workdir))

----------------------------------------------------------------------------
(* Directory Session handlers *)

\* PilotRServer.handle_set_workdir
handle_set_workdir(path, create, fault) ==
    LET args == [path |-> path, create |-> create]
        rp == Resolve(fs, path)
        wd == rp.path
        there == PathExists(fs, wd)
        mk == MkdirParents(fs, wd)
        f1 == IF there THEN fs ELSE mk.fs
        sd == Append(wd, PILOTR)
        mk2 == MkdirExistOk(f1, sd)
        sf == Append(sd, STATE_JSON)
        state == load_state(mk2.fs, Some(sf))
        state2 == DictSet(DictSet(DictSet(state, "workdir", wd),
                                  "primary_file", primary_file),
                          "updated_at", Now)
        E(code) == Err("set_workdir", args, <<>>, code)
    IN  IF ~rp.ok THEN Only(E("SET_DIR_ERROR"))
        ELSE IF ~there /\ ~create THEN Only(E("DIR_NOT_FOUND"))
        ELSE IF ~there /\ ~mk.ok THEN Only(E("SET_DIR_ERROR"))
        ELSE IF there /\ ~PathIsDir(fs, wd) THEN Only(E("NOT_A_DIR"))
        \* self.workdir and self.state_dir are assigned before the mkdir
        ELSE IF ~mk2.ok
        THEN Out(f1, Some(wd), Some(sd), state_file, primary_file, cwd,
                 E("SET_DIR_ERROR"))
        \* state.update on a value that is no dict raises AttributeError
        ELSE IF ~IsDict(state)
        THEN Out(mk2.fs, Some(wd), Some(sd), Some(sf), primary_file, cwd,
                 E("SET_DIR_ERROR"))
        ELSE Out(save_state(mk2.fs, Some(sf), state2, fault),
                 Some(wd), Some(sd), Some(sf), primary_file, cwd,
                 Saved(Ok("set_workdir", args, <<>>)))

\* a get_state that writes the document it has loaded back, with the time
handle_get_state_persist ==
    LET state == IF IsSet(state_file) THEN load_state(fs, state_file) ELSE EmptyDict IN
    IF ~IsDict(state) THEN Only(Err("get_state", <<>>, <<>>, "INTERNAL_ERROR"))
    ELSE Files(save_state(fs, state_file, DictSet(state, "updated_at", Now), "none"),
               Ok("get_state", <<>>, <<>>))

\* PilotRServer.handle_get_state; an exception leaves through call_tool
handle_get_state ==
    LET state == IF IsSet(state_file) THEN load_state(fs, state_file) ELSE EmptyDict IN
    IF ~IsDict(state) THEN Only(Err("get_state", <<>>, <<>>, "INTERNAL_ERROR"))
    ELSE Only(Ok("get_state", <<>>, <<>>))

\* a set_primary_file that takes the name before it looks for the file
handle_set_primary_file_early(filename, fault) ==
    LET args == [filename |-> filename]
        name == NormalizeExt(filename)
        filepath == Join(The(workdir), name)
        state == load_state(fs, state_file)
        state2 == DictSet(DictSet(state, "primary_file", name), "updated_at", Now)
        E(code) == Err("set_primary_file", args, <<name>>, code)
    IN  IF ensure_workdir_set # "" THEN Only(E(ensure_workdir_set))
        ELSE IF ~is_safe_path(filepath) THEN Only(E("UNSAFE_PATH"))
        ELSE IF ~PathExists(fs, filepath)
        THEN Out(fs, workdir, state_dir, state_file, name, cwd, E("FILE_NOT_FOUND"))
        ELSE IF ~IsDict(state)
        THEN Out(fs, workdir, state_dir, state_file, name, cwd,
                 E("INTERNAL_ERROR"))
        ELSE Out(save_state(fs, state_file, state2, fault),
                 workdir, state_dir, state_file, name, cwd,
                 Saved(Ok("set_primary_file", args, <<name>>)))

\* PilotRServer.handle_set_primary_file
handle_set_primary_file(filename, fault) ==
    LET args == [filename |-> filename]
        name == NormalizeExt(filename)
        filepath == Join(The(workdir), name)
        state == load_state(fs, state_file)
        state2 == DictSet(DictSet(state, "primary_file", name), "updated_at", Now)
        E(code) == Err("set_primary_file", args, <<name>>, code)
    IN  IF ensure_workdir_set # "" THEN Only(E(ensure_workdir_set))
        ELSE IF ~is_safe_path(filepath) THEN Only(E("UNSAFE_PATH"))
        ELSE IF ~PathExists(fs, filepath) THEN Only(E("FILE_NOT_FOUND"))
        \* no try block: the TypeError of state[...] = ... on a list
        \* reaches call_tool, after self.primary_file was assigned
        ELSE IF ~IsDict(state)
        THEN Out(fs, workdir, state_dir, state_file, name, cwd,
                 E("INTERNAL_ERROR"))
        ELSE Out(save_state(fs, state_file, state2, fault),
                 workdir, state_dir, state_file, name, cwd,
                 Saved(Ok("set_primary_file", args, <<name>>)))

----------------------------------------------------------------------------
(* File Operations handlers *)

\* "if filename not in state['files']: state['files'].append(filename)",
\* after "if 'files' not in state: state['files'] = []"
Register(state, name) ==
    LET s1 == IF DictHas(state, "files") THEN state ELSE DictSet(state, "files", <<>>)
        files == DictGet(s1, "files") IN
    IF \E i \in 1..Len(files) : files[i] = name THEN s1
    ELSE DictSet(s1, "files", Append(files, name))

\* list.remove: the first occurrence goes
RemoveFirst(seq, x) ==
    LET i == CHOOSE j \in 1..Len(seq) : seq[j] = x /\ \A k \in 1..(j - 1) : seq[k] # x IN
    SubSeq(seq, 1, i - 1) \o SubSeq(seq, i + 1, Len(seq))

Contains(seq, x) == \E i \in 1..Len(seq) : seq[i] = x

\* a create that looks for the file before it asks the path guard
handle_create_R_file_exists_first(filename, overwrite, scaffold, fault) ==
    LET args == [filename |-> filename, overwrite |-> overwrite, scaffold |-> scaffold]
        name == NormalizeExt(filename)
        filepath == Join(The(workdir), name)
        content == IF scaffold THEN R_SCAFFOLD ELSE <<>>
        w == WriteText(fs, filepath, content)
        state == load_state(w.fs, state_file)
        state2 == DictSet(Register(state, name), "updated_at", Now)
        E(code) == Err("create_R_file", args, <<name>>, code)
    IN  IF ensure_workdir_set # "" THEN Only(E(ensure_workdir_set))
        ELSE IF PathExists(fs, filepath) /\ ~overwrite THEN Only(E("FILE_EXISTS"))
        ELSE IF ~is_safe_path(filepath) THEN Only(E("UNSAFE_PATH"))
        ELSE IF ~w.ok THEN Only(E("CREATE_ERROR"))
        \* the file is written; state["files"] = [] on a list raises
        ELSE IF ~IsDict(state) THEN Files(w.fs, E("CREATE_ERROR"))
        ELSE Files(save_state(w.fs, state_file, state2, fault),
                   Saved(Ok("create_R_file", args, <<name>>)))

\* PilotRServer.handle_create_R_file
handle_create_R_file(filename, overwrite, scaffold, fault) ==
    LET args == [filename |-> filename, overwrite |-> overwrite, scaffold |-> scaffold]
        name == NormalizeExt(filename)
        filepath == Join(The(workdir), name)
        content == IF scaffold THEN R_SCAFFOLD ELSE <<>>
        w == WriteText(fs, filepath, content)
        state == load_state(w.fs, state_file)
        state2 == DictSet(Register(state, name), "updated_at", Now)
        E(code) == Err("create_R_file", args, <<name>>, code)
    IN  IF ensure_workdir_set # "" THEN Only(E(ensure_workdir_set))
        ELSE IF ~is_safe_path(filepath) THEN Only(E("UNSAFE_PATH"))
        ELSE IF PathExists(fs, filepath) /\ ~overwrite THEN Only(E("FILE_EXISTS"))
        ELSE IF ~w.ok THEN Only(E("CREATE_ERROR"))
        \* the file is written; state["files"] = [] on a list raises
        ELSE IF ~IsDict(state) THEN Files(w.fs, E("CREATE_ERROR"))
        ELSE Files(save_state(w.fs, state_file, state2, fault),
                   Saved(Ok("create_R_file", args, <<name>>)))

\* a rename that copies the file and leaves the old name in place
handle_rename_R_file_copy(old_name, new_name, overwrite, fault) ==
    LET args == [old_name |-> old_name, new_name |-> new_name, overwrite |-> overwrite]
        old == NormalizeExt(old_name)
        new == NormalizeExt(new_name)
        old_path == Join(The(workdir), old)
        new_path == Join(The(workdir), new)
        rm == IF PathExists(fs, new_path) /\ overwrite
              THEN Unlink(fs, new_path) ELSE [ok |-> TRUE, fs |-> fs]
        mv == WriteText(rm.fs, new_path, ReadText(fs, old_path).data)
        state == load_state(mv.fs, state_file)
        s1 == IF DictHas(state, "files") /\ Contains(DictGet(state, "files"), old)
              THEN DictSet(state, "files",
                           Append(RemoveFirst(DictGet(state, "files"), old), new))
              ELSE state
        \* state.get("primary_file") == old_name
        repoint == DictHas(s1, "primary_file") /\ DictGet(s1, "primary_file") = old
        s2 == IF repoint THEN DictSet(s1, "primary_file", new) ELSE s1
        state2 == DictSet(s2, "updated_at", Now)
        E(code) == Err("rename_R_file", args, <<old, new>>, code)
    IN  IF ensure_workdir_set # "" THEN Only(E(ensure_workdir_set))
        ELSE IF ~is_safe_path(old_path) \/ ~is_safe_path(new_path)
        THEN Only(E("UNSAFE_PATH"))
        ELSE IF ~PathExists(fs, old_path) THEN Only(E("FILE_NOT_FOUND"))
        ELSE IF PathExists(fs, new_path) /\ ~overwrite THEN Only(E("FILE_EXISTS"))
        ELSE IF ~rm.ok THEN Only(E("RENAME_ERROR"))
        \* the target is already unlinked when the move raises
        ELSE IF ~mv.ok THEN Files(rm.fs, E("RENAME_ERROR"))
        \* state.get on a list raises AttributeError, after the move
        ELSE IF ~IsDict(state) THEN Files(mv.fs, E("RENAME_ERROR"))
        ELSE Out(save_state(mv.fs, state_file, state2, fault),
                 workdir, state_dir, state_file,
                 IF repoint THEN new ELSE primary_file, cwd,
                 Saved(Ok("rename_R_file", args, <<old, new>>)))

\* PilotRServer.handle_rename_R_file
handle_rename_R_file(old_name, new_name, overwrite, fault) ==
    LET args == [old_name |-> old_name, new_name |-> new_name, overwrite |-> overwrite]
        old == NormalizeExt(old_name)
        new == NormalizeExt(new_name)
        old_path == Join(The(workdir), old)
        new_path == Join(The(workdir), new)
        rm == IF PathExists(fs, new_path) /\ overwrite
              THEN Unlink(fs, new_path) ELSE [ok |-> TRUE, fs |-> fs]
        mv == OsRename(rm.fs, old_path, new_path)
        state == load_state(mv.fs, state_file)
        s1 == IF DictHas(state, "files") /\ Contains(DictGet(state, "files"), old)
              THEN DictSet(state, "files",
                           Append(RemoveFirst(DictGet(state, "files"), old), new))
              ELSE state
        \* state.get("primary_file") == old_name
        repoint == DictHas(s1, "primary_file") /\ DictGet(s1, "primary_file") = old
        s2 == IF repoint THEN DictSet(s1, "primary_file", new) ELSE s1
        state2 == DictSet(s2, "updated_at", Now)
        E(code) == Err("rename_R_file", args, <<old, new>>, code)
    IN  IF ensure_workdir_set # "" THEN Only(E(ensure_workdir_set))
        ELSE IF ~is_safe_path(old_path) \/ ~is_safe_path(new_path)
        THEN Only(E("UNSAFE_PATH"))
        ELSE IF ~PathExists(fs, old_path) THEN Only(E("FILE_NOT_FOUND"))
        ELSE IF PathExists(fs, new_path) /\ ~overwrite THEN Only(E("FILE_EXISTS"))
        ELSE IF ~rm.ok THEN Only(E("RENAME_ERROR"))
        \* the target is already unlinked when the move raises
        ELSE IF ~mv.ok THEN Files(rm.fs, E("RENAME_ERROR"))
        \* state.get on a list raises AttributeError, after the move
        ELSE IF ~IsDict(state) THEN Files(mv.fs, E("RENAME_ERROR"))
        ELSE Out(save_state(mv.fs, state_file, state2, fault),
                 workdir, state_dir, state_file,
                 IF repoint THEN new ELSE primary_file, cwd,
                 Saved(Ok("rename_R_file", args, <<old, new>>)))

\* str.endswith('\n')
EndsWithNL(text) == Len(text) > 0 /\ Last(text) = NL

\* a carriage return, in a file or in a string
CR == "CR"
\* a byte sequence that is no UTF-8 text
BAD == "BAD"

\* What a text-mode read makes of a file's bytes (open(p) with newline=None,
\* as Path.read_text does): "\r\n" and a lone "\r" both come back as "\n"
RECURSIVE Universal(_)
Universal(data) ==
    IF data = <<>> THEN <<>>
    ELSE IF Head(data) = CR
    THEN <<NL>> \o Universal(IF Len(data) > 1 /\ data[2] = NL
                             THEN SubSeq(data, 3, Len(data)) ELSE Tail(data))
    ELSE <<Head(data)>> \o Universal(Tail(data))

\* len(str.splitlines()): "\n", "\r" and "\r\n" each end a line, and what
\* follows the last of them, when there is something, is a line too
CountLines(text) ==
    LET u == Universal(text) IN
    Cardinality({i \in 1..Len(u) : u[i] = NL})
    + (IF u # <<>> /\ Last(u) # NL THEN 1 ELSE 0)

\* an append that does not test whether the file exists
handle_append_R_code_unchecked(code, filename, ensure_trailing_newline) ==
    LET args == [code |-> code, filename |-> filename,
                 ensure_trailing_newline |-> ensure_trailing_newline]
        name == NormalizeExt(IF filename = <<>> THEN primary_file ELSE filename)
        filepath == Join(The(workdir), name)
        r == ReadText(fs, filepath)
        code_to_append == IF ensure_trailing_newline /\ ~EndsWithNL(code)
                          THEN Append(code, NL) ELSE code
        text == Universal(r.data)
        existing_content == IF text # <<>> /\ ~EndsWithNL(text)
                            THEN Append(text, NL) ELSE text
        new_content == existing_content \o code_to_append
        w == WriteText(fs, filepath, new_content)
        E(code_) == Err("append_R_code", args, <<name>>, code_)
    IN  IF ensure_workdir_set # "" THEN Only(E(ensure_workdir_set))
        ELSE IF ~is_safe_path(filepath) THEN Only(E("UNSAFE_PATH"))
        ELSE IF ~r.ok \/ Contains(r.data, BAD) \/ ~w.ok
        THEN Only([E("APPEND_ERROR") EXCEPT !.reads = {Stat(fs, filepath).path}])
        ELSE Files(w.fs,
                   [Ok("append_R_code", args, <<name>>) EXCEPT
                      !.reads = {Stat(fs, filepath).path},
                      !.out = [content |-> new_content,
                               lines_appended |-> CountLines(code),
                               total_lines |-> CountLines(new_content)]])

\* PilotRServer.handle_append_R_code
handle_append_R_code(code, filename, ensure_trailing_newline) ==
    LET args == [code |-> code, filename |-> filename,
                 ensure_trailing_newline |-> ensure_trailing_newline]
        name == NormalizeExt(IF filename = <<>> THEN primary_file ELSE filename)
        filepath == Join(The(workdir), name)
        r == ReadText(fs, filepath)
        code_to_append == IF ensure_trailing_newline /\ ~EndsWithNL(code)
                          THEN Append(code, NL) ELSE code
        text == Universal(r.data)
        existing_content == IF text # <<>> /\ ~EndsWithNL(text)
                            THEN Append(text, NL) ELSE text
        new_content == existing_content \o code_to_append
        w == WriteText(fs, filepath, new_content)
        E(code_) == Err("append_R_code", args, <<name>>, code_)
    IN  IF ensure_workdir_set # "" THEN Only(E(ensure_workdir_set))
        ELSE IF ~is_safe_path(filepath) THEN Only(E("UNSAFE_PATH"))
        ELSE IF ~PathExists(fs, filepath) THEN Only(E("FILE_NOT_FOUND"))
        ELSE IF ~r.ok \/ Contains(r.data, BAD) \/ ~w.ok
        THEN Only([E("APPEND_ERROR") EXCEPT !.reads = {Stat(fs, filepath).path}])
        ELSE Files(w.fs,
                   [Ok("append_R_code", args, <<name>>) EXCEPT
                      !.reads = {Stat(fs, filepath).path},
                      !.out = [content |-> new_content,
                               lines_appended |-> CountLines(code),
                               total_lines |-> CountLines(new_content)]])

\* PilotRServer.handle_write_R_code
handle_write_R_code(code, filename, overwrite, use_scaffold_header, fault) ==
    LET args == [code |-> code, filename |-> filename, overwrite |-> overwrite,
                 use_scaffold_header |-> use_scaffold_header]
        name == NormalizeExt(IF filename = <<>> THEN primary_file ELSE filename)
        filepath == Join(The(workdir), name)
        c0 == IF use_scaffold_header /\ R_SCAFFOLD # <<>> THEN R_SCAFFOLD \o code ELSE code
        content == IF c0 # <<>> /\ ~EndsWithNL(c0) THEN Append(c0, NL) ELSE c0
        w == WriteText(fs, filepath, content)
        state == load_state(w.fs, state_file)
        state2 == DictSet(Register(state, name), "updated_at", Now)
        E(code_) == Err("write_R_code", args, <<name>>, code_)
    IN  IF ensure_workdir_set # "" THEN Only(E(ensure_workdir_set))
        ELSE IF ~is_safe_path(filepath) THEN Only(E("UNSAFE_PATH"))
        ELSE IF PathExists(fs, filepath) /\ ~overwrite THEN Only(E("FILE_EXISTS"))
        ELSE IF ~w.ok THEN Only(E("WRITE_ERROR"))
        ELSE IF ~IsDict(state) THEN Files(w.fs, E("WRITE_ERROR"))
        ELSE Files(save_state(w.fs, state_file, state2, fault),
                   Saved(Ok("write_R_code", args, <<name>>)))

----------------------------------------------------------------------------
(* Interpreter Runner *)

\* What a launch meets: which executables PATH holds, and how the child ends
PathEnvs == {{}, {"R"}, {"Rscript", "R"}}
ChildEnds == {"exit0", "exit1", "timeout", "launch_error"}

\* PilotRServer.find_r_executable: <<>> when neither is found
find_r_executable(path_env) ==
    IF "Rscript" \in path_env THEN Some("Rscript")
    ELSE IF "R" \in path_env THEN Some("R")
    ELSE NoneV

\* PilotRServer.run_r_command.  The child of a run that passes --save and
\* exits with status 0 leaves the workspace snapshot .RData in its directory.
\* os.chdir(original_cwd) is the statement after subprocess.run: it is not
\* reached when subprocess.run raises.
run_r_command(res, cmd_args, path_env, child) ==
    LET r_exe == find_r_executable(path_env)
        ran == [res EXCEPT !.launched = (child # "launch_error"),
                           !.out = <<The(r_exe)>> \o cmd_args]
        snap == WriteText(fs, Append(The(workdir), RDATA), <<"x">>)
        f1 == IF child = "exit0" /\ Head(cmd_args) = "--save" /\ snap.ok
              THEN snap.fs ELSE fs
        there == IF IsSet(workdir) THEN The(workdir) ELSE cwd
    IN  IF ~IsSet(r_exe) THEN Only([res EXCEPT !.ok = FALSE, !.code = "R_NOT_FOUND"])
        ELSE IF child = "launch_error"
        THEN Out(fs, workdir, state_dir, state_file, primary_file, there,
                 [ran EXCEPT !.ok = FALSE, !.code = "EXECUTION_ERROR"])
        ELSE IF child = "timeout"
        THEN Out(fs, workdir, state_dir, state_file, primary_file, there,
                 [ran EXCEPT !.ok = FALSE, !.code = "TIMEOUT"])
        ELSE IF child = "exit1"
        THEN Only([ran EXCEPT !.ok = FALSE, !.code = "R_EXECUTION_ERROR"])
        ELSE Files(f1, [ran EXCEPT !.ok = TRUE, !.code = ""])

\* a run_script that always saves the workspace
handle_run_R_script_save(filename, extra, save_rdata, path_env, child) ==
    LET args == [filename |-> filename, args |-> extra, save_rdata |-> save_rdata]
        name == NormalizeExt(IF filename = <<>> THEN primary_file ELSE filename)
        filepath == Join(The(workdir), name)
        cmd_args == <<"--save", filepath>> \o extra
        E(code) == Err("run_R_script", args, <<name>>, code)
    IN  IF ensure_workdir_set # "" THEN Only(E(ensure_workdir_set))
        ELSE IF ~is_safe_path(filepath) THEN Only(E("UNSAFE_PATH"))
        ELSE IF ~PathExists(fs, filepath) THEN Only(E("FILE_NOT_FOUND"))
        ELSE run_r_command(Ok("run_R_script", args, <<name>>), cmd_args, path_env, child)

\* PilotRServer.handle_run_R_script
handle_run_R_script(filename, extra, save_rdata, path_env, child) ==
    LET args == [filename |-> filename, args |-> extra, save_rdata |-> save_rdata]
        name == NormalizeExt(IF filename = <<>> THEN primary_file ELSE filename)
        filepath == Join(The(workdir), name)
        cmd_args == <<IF save_rdata THEN "--save" ELSE "--no-save", filepath>> \o extra
        E(code) == Err("run_R_script", args, <<name>>, code)
    IN  IF ensure_workdir_set # "" THEN Only(E(ensure_workdir_set))
        ELSE IF ~is_safe_path(filepath) THEN Only(E("UNSAFE_PATH"))
        ELSE IF ~PathExists(fs, filepath) THEN Only(E("FILE_NOT_FOUND"))
        ELSE run_r_command(Ok("run_R_script", args, <<name>>), cmd_args, path_env, child)

\* PilotRServer.handle_run_R_expression
handle_run_R_expression(expr, path_env, child) ==
    LET args == [expr |-> expr] IN
    IF ensure_workdir_set # ""
    THEN Only(Err("run_R_expression", args, <<>>, ensure_workdir_set))
    ELSE run_r_command(Ok("run_R_expression", args, <<>>),
                       <<"-e", expr, "--slave">>, path_env, child)

\* an inspection that does not look for the snapshot
handle_inspect_R_objects_unchecked(objects, path_env, child) ==
    LET args == [objects |-> objects] IN
    IF ensure_workdir_set # ""
    THEN Only(Err("inspect_R_objects", args, <<>>, ensure_workdir_set))
    ELSE run_r_command(Ok("inspect_R_objects", args, <<>>),
                       <<"-e", <<"load", objects>>, "--slave">>, path_env, child)

\* PilotRServer.handle_inspect_R_objects
handle_inspect_R_objects(objects, path_env, child) ==
    LET args == [objects |-> objects] IN
    IF ensure_workdir_set # ""
    THEN Only(Err("inspect_R_objects", args, <<>>, ensure_workdir_set))
    ELSE IF ~PathExists(fs, Append(The(workdir), RDATA))
    THEN Only(Err("inspect_R_objects", args, <<>>, "NO_RDATA"))
    ELSE run_r_command(Ok("inspect_R_objects", args, <<>>),
                       <<"-e", <<"load", objects>>, "--slave">>, path_env, child)

\* PilotRServer.handle_which_R
handle_which_R(path_env) ==
    IF path_env # {}
    THEN Only([Ok("which_R", <<>>, <<>>) EXCEPT !.out = find_r_executable(path_env)])
    ELSE Only(Err("which_R", <<>>, <<>>, "R_NOT_FOUND"))

\* PilotRServer.handle_ggplot_style_check: a text transform of its argument
handle_ggplot_style_check(code) ==
    Only(Ok("ggplot_style_check", [code |-> code], <<>>))

----------------------------------------------------------------------------
(* Listing and reading *)

\* fnmatch of one component against one pattern component: a pattern is
\* literal tokens, with "*" for any run of characters at its start
Matches(comp, pat) ==
    IF pat # <<>> /\ Head(pat) = STAR
    THEN Len(comp) >= Len(pat) - 1
         /\ SubSeq(comp, Len(comp) - Len(pat) + 2, Len(comp)) = Tail(pat)
    ELSE comp = pat

\* the entries of the directory base names
Children(f, base) ==
    LET d == Stat(f, base).path IN
    {Last(q) : q \in {x \in DOMAIN f : Len(x) = Len(d) + 1 /\ IsRelativeTo(x, d)}}

\* Path.glob(pattern): the paths below base that match, component by
\* component; a ".." component steps to the parent without any check, any
\* other component selects among the entries of a directory
RECURSIVE Glob(_, _, _)
Glob(f, base, pats) ==
    IF pats = <<>> THEN {base}
    ELSE IF Head(pats) = <<DOTDOT>> THEN Glob(f, Append(base, <<DOTDOT>>), Tail(pats))
    ELSE IF ~PathIsDir(f, base) THEN {}
    ELSE UNION {Glob(f, Append(base, c), Tail(pats)) :
                  c \in {x \in Children(f, base) :
                           /\ Matches(x, Head(pats))
                           /\ (Tail(pats) # <<>> => PathIsDir(f, Append(base, x)))}}

\* one row of list_exports: name, size and mtime as reported, and the file
\* the row describes; the filesystem of the model keeps no times, mtime is
\* the st_mtime the stat call returns
ExportRow(f, item, mtime) ==
    LET at == Stat(f, item).path IN
    [name |-> Last(item), size |-> Len(f[at].data), mtime |-> mtime, at |-> at]

\* the order of Python's str comparison on the names of the model
NameOrder == <<RDATA, PILOTR, <<"a", ".R">>, <<"agent", ".R">>, <<"bad">>,
               <<"lnk", ".R">>, <<"new">>, <<"proj">>, <<"secret", ".R">>>>
NameRank(name) == CHOOSE i \in 1..Len(NameOrder) : NameOrder[i] = name

SortKey(row, sort_by) ==
    IF sort_by = "mtime" THEN row.mtime
    ELSE IF sort_by = "size" THEN row.size
    ELSE NameRank(row.name)

\* list.sort(key=..., reverse=...): stable in both directions
RECURSIVE SortRows(_, _, _)
SortRows(rows, sort_by, reverse) ==
    IF rows = <<>> THEN <<>>
    ELSE LET rest == SortRows(Tail(rows), sort_by, reverse)
             k == SortKey(Head(rows), sort_by)
             Before(r) == IF reverse THEN SortKey(r, sort_by) > k
                                     ELSE SortKey(r, sort_by) < k
             n == Cardinality({i \in 1..Len(rest) : Before(rest[i])})
         IN  SubSeq(rest, 1, n) \o <<Head(rows)>> \o SubSeq(rest, n + 1, Len(rest))

\* the sequences that hold each element of a set once: the orders in which
\* a directory scan can return its entries
Orders(S) == {q \in [1..Cardinality(S) -> S] : \A x \in S : \E i \in DOMAIN q : q[i] = x}

\* PilotRServer.handle_list_exports; scan is the order of enumeration, times
\* the st_mtime of each file found
handle_list_exports(glob, sort_by, descending, limit, scan, times) ==
    LET args == [glob |-> glob, sort_by |-> sort_by, descending |-> descending,
                 limit |-> limit]
        rows == [i \in 1..Len(scan) |-> ExportRow(fs, scan[i], times[scan[i]])]
        reverse == IF sort_by = "name" THEN ~descending ELSE descending
        sorted == IF sort_by \in {"mtime", "size", "name"}
                  THEN SortRows(rows, sort_by, reverse) ELSE rows
        \* files[:limit]: a negative limit counts from the end
        stop == IF limit < 0
                THEN (IF Len(sorted) + limit > 0 THEN Len(sorted) + limit ELSE 0)
                ELSE IF limit < Len(sorted) THEN limit ELSE Len(sorted)
        files == SubSeq(sorted, 1, stop)
    IN  IF ensure_workdir_set # ""
        THEN Only(Err("list_exports", args, <<>>, ensure_workdir_set))
        ELSE Only([Ok("list_exports", args, <<>>) EXCEPT !.out = files])

\* the files list_exports enumerates for a pattern
GlobFiles(glob) == {p \in Glob(fs, The(workdir), Split(glob)) : PathIsFile(fs, p)}

\* PilotRServer.handle_list_R_files: the sorted list of distinct names, given
\* as the set of its elements
handle_list_R_files ==
    IF ensure_workdir_set # ""
    THEN Only(Err("list_R_files", <<>>, <<>>, ensure_workdir_set))
    ELSE Only([Ok("list_R_files", <<>>, <<>>) EXCEPT
                 !.out = {Last(p) : p \in {q \in Glob(fs, The(workdir), <<<<STAR, ".R">>>>)
                                              \cup Glob(fs, The(workdir), <<<<STAR, ".r">>>>) :
                                           PathIsFile(fs, q)}}])

\* a read that answers a file over the limit with its first max_bytes bytes
handle_read_export_prefix(name, max_bytes, as_text) ==
    LET args == [name |-> name, max_bytes |-> max_bytes, as_text |-> as_text]
        filepath == Join(The(workdir), name)
        at == Stat(fs, filepath).path
        E(code) == Err("read_export", args, <<name>>, code)
    IN  IF ensure_workdir_set # "" THEN Only(E(ensure_workdir_set))
        ELSE IF ~is_safe_path(filepath) THEN Only(E("UNSAFE_PATH"))
        ELSE IF ~PathExists(fs, filepath) THEN Only(E("FILE_NOT_FOUND"))
        ELSE IF ~PathIsFile(fs, filepath) THEN Only(E("NOT_A_FILE"))
        ELSE IF Len(fs[at].data) > max_bytes
        THEN Only([E("FILE_TOO_LARGE") EXCEPT
                     !.reads = {at}, !.out = SubSeq(fs[at].data, 1, max_bytes)])
        ELSE IF as_text /\ Contains(fs[at].data, BAD)
        THEN Only([E("DECODE_ERROR") EXCEPT !.reads = {at}])
        ELSE Only([Ok("read_export", args, <<name>>) EXCEPT
                     !.reads = {at}, !.out = fs[at].data])

\* PilotRServer.handle_read_export
handle_read_export(name, max_bytes, as_text) ==
    LET args == [name |-> name, max_bytes |-> max_bytes, as_text |-> as_text]
        filepath == Join(The(workdir), name)
        at == Stat(fs, filepath).path
        file_size == Len(fs[at].data)
        E(code) == Err("read_export", args, <<name>>, code)
    IN  IF ensure_workdir_set # "" THEN Only(E(ensure_workdir_set))
        ELSE IF ~is_safe_path(filepath) THEN Only(E("UNSAFE_PATH"))
        ELSE IF ~PathExists(fs, filepath) THEN Only(E("FILE_NOT_FOUND"))
        ELSE IF ~PathIsFile(fs, filepath) THEN Only(E("NOT_A_FILE"))
        ELSE IF file_size > max_bytes THEN Only(E("FILE_TOO_LARGE"))
        ELSE IF as_text /\ Contains(fs[at].data, BAD)
        THEN Only([E("DECODE_ERROR") EXCEPT !.reads = {at}])
        ELSE Only([Ok("read_export", args, <<name>>) EXCEPT
                     !.reads = {at}, !.out = fs[at].data])

\* the lines of a text: csv.reader's rows before their split into fields
RECURSIVE LinesFrom(_, _, _)
LinesFrom(text, i, cur) ==
    IF i > Len(text) THEN IF cur = <<>> THEN <<>> ELSE <<cur>>
    ELSE IF text[i] = NL THEN <<cur>> \o LinesFrom(text, i + 1, <<>>)
    ELSE LinesFrom(text, i + 1, Append(cur, text[i]))

\* a preview that counts only the rows it keeps
handle_preview_table_kept(name, delimiter, max_rows) ==
    LET args == [name |-> name, delimiter |-> delimiter, max_rows |-> max_rows]
        filepath == Join(The(workdir), name)
        at == Stat(fs, filepath).path
        lines == LinesFrom(fs[at].data, 1, <<>>)
        data_rows == Tail(lines)
        rows == SubSeq(data_rows, 1, IF max_rows < Len(data_rows) THEN max_rows
                                     ELSE Len(data_rows))
        E(code) == Err("preview_table", args, <<name>>, code)
    IN  IF ensure_workdir_set # "" THEN Only(E(ensure_workdir_set))
        ELSE IF ~is_safe_path(filepath) THEN Only(E("UNSAFE_PATH"))
        ELSE IF ~PathExists(fs, filepath) THEN Only(E("FILE_NOT_FOUND"))
        ELSE IF ~PathIsFile(fs, filepath) \/ Contains(fs[at].data, BAD)
        THEN Only(E("PREVIEW_ERROR"))
        ELSE IF lines = <<>> \/ Head(lines) = <<>>
        THEN Only([E("EMPTY_FILE") EXCEPT !.reads = {at}])
        ELSE Only([Ok("preview_table", args, <<name>>) EXCEPT
                     !.reads = {at},
                     !.out = [header |-> Head(lines), rows |-> rows,
                              total_rows |-> Len(rows),
                              displayed_rows |-> Len(rows),
                              truncated |-> Len(rows) > max_rows]])

\* PilotRServer.handle_preview_table
handle_preview_table(name, delimiter, max_rows) ==
    LET args == [name |-> name, delimiter |-> delimiter, max_rows |-> max_rows]
        filepath == Join(The(workdir), name)
        at == Stat(fs, filepath).path
        lines == LinesFrom(fs[at].data, 1, <<>>)
        data_rows == Tail(lines)
        rows == SubSeq(data_rows, 1, IF max_rows < Len(data_rows) THEN max_rows
                                     ELSE Len(data_rows))
        E(code) == Err("preview_table", args, <<name>>, code)
    IN  IF ensure_workdir_set # "" THEN Only(E(ensure_workdir_set))
        ELSE IF ~is_safe_path(filepath) THEN Only(E("UNSAFE_PATH"))
        ELSE IF ~PathExists(fs, filepath) THEN Only(E("FILE_NOT_FOUND"))
        ELSE IF ~PathIsFile(fs, filepath) \/ Contains(fs[at].data, BAD)
        THEN Only(E("PREVIEW_ERROR"))
        ELSE IF lines = <<>> \/ Head(lines) = <<>>
        THEN Only([E("EMPTY_FILE") EXCEPT !.reads = {at}])
        ELSE Only([Ok("preview_table", args, <<name>>) EXCEPT
                     !.reads = {at},
                     !.out = [header |-> Head(lines), rows |-> rows,
                              total_rows |-> Len(data_rows),
                              displayed_rows |-> Len(rows),
                              truncated |-> Len(data_rows) > max_rows]])

----------------------------------------------------------------------------
(* The server: one action per tool call, and what happens around it *)

\* The arguments the calls are drawn from
EscapeName == <<DOTDOT, SLASH, "secret", ".R">>
LinkName == <<"lnk", ".R">>
RenameOldArgs == {<<"a">>, <<"agent", ".R">>, LinkName}
RenameNewArgs == {<<"a">>, <<"agent", ".R">>, EscapeName}
AppendFileArgs == {<<>>, <<"a">>, EscapeName}
WriteFileArgs == {<<>>, <<"a">>, LinkName}
RunFileArgs == {<<>>, <<"a">>, EscapeName}
GlobArgs == {<<STAR>>, <<DOTDOT, SLASH, STAR>>}
SortArgs == {"name"}
LimitArgs == {1, 200}
MtimeArgs == {0}
ReadArgs == {<<"a", ".R">>, LinkName, PILOTR}
PreviewArgs == {<<"a", ".R">>, EscapeName}
MaxBytesArgs == {0, 50000}
MaxRowsArgs == {1, 50}
ExtraArgs == {<<>>, <<"v", "w">>}

\* no child process
NoChild == [st |-> "none", stdout |-> <<>>, stderr |-> <<>>, returncode |-> 0]

\* no run_r_command under way
NoRun == [pc |-> "idle", args |-> <<>>, path_env |-> {}, r_exe |-> <<>>,
          original_cwd |-> <<>>, child |-> NoChild]

\* no request has been received
NoLoop == [running |-> 0, tasks |-> <<>>]

Init ==
    /\ fs = InitFs
    /\ workdir = NoneV
    /\ state_dir = NoneV
    /\ state_file = NoneV
    /\ primary_file = DefaultPrimary
    /\ cwd = <<HOME>>
    /\ clock = 0
    /\ save_pc = "idle"
    /\ save_doc = EmptyDict
    /\ run = NoRun
    /\ loop = NoLoop
    /\ last = Res("init", <<>>, <<>>, TRUE, "")

\* the call returns and leaves the state r
Apply(r) ==
    /\ fs' = r.fs
    /\ workdir' = r.workdir
    /\ state_dir' = r.state_dir
    /\ state_file' = r.state_file
    /\ primary_file' = r.primary_file
    /\ cwd' = r.cwd
    /\ clock' = clock + 1
    /\ last' = r.last
    /\ UNCHANGED <<save_pc, save_doc, run, loop>>

SetWorkdir ==
    /\ clock < MaxClock
    /\ \E path \in DirArgs, create \in BOOLEAN, fault \in FaultArgs :
           Apply(handle_set_workdir(path, create, fault))

GetState ==
    /\ clock < MaxClock
    /\ Apply(handle_get_state)

CreateRFile ==
    /\ clock < MaxClock
    /\ \E filename \in FileArgs, overwrite \in BOOLEAN, scaffold \in BOOLEAN,
          fault \in FaultArgs :
           Apply(handle_create_R_file(filename, overwrite, scaffold, fault))

RenameRFile ==
    /\ clock < MaxClock
    /\ \E old_name \in RenameOldArgs, new_name \in RenameNewArgs, overwrite \in BOOLEAN,
          fault \in FaultArgs :
           Apply(handle_rename_R_file(old_name, new_name, overwrite, fault))

SetPrimaryFile ==
    /\ clock < MaxClock
    /\ \E filename \in FileArgs, fault \in FaultArgs :
           Apply(handle_set_primary_file(filename, fault))

AppendRCode ==
    /\ clock < MaxClock
    /\ \E code \in {<<"x">>}, filename \in AppendFileArgs, etn \in BOOLEAN :
           LET r == handle_append_R_code(code, filename, etn) IN
           /\ r.last.ok => Len(r.last.out.content) <= MaxContent
           /\ Apply(r)

WriteRCode ==
    /\ clock < MaxClock
    /\ \E code \in CodeArgs, filename \in WriteFileArgs, overwrite \in BOOLEAN,
          header \in BOOLEAN, fault \in FaultArgs :
           Apply(handle_write_R_code(code, filename, overwrite, header, fault))

RunRScript ==
    /\ clock < MaxClock
    /\ \E filename \in RunFileArgs, extra \in ExtraArgs, save_rdata \in BOOLEAN,
          path_env \in PathEnvs, child \in ChildEnds :
           Apply(handle_run_R_script(filename, extra, save_rdata, path_env, child))

RunRExpression ==
    /\ clock < MaxClock
    /\ \E path_env \in PathEnvs, child \in ChildEnds :
           Apply(handle_run_R_expression("x", path_env, child))

ListExports ==
    /\ clock < MaxClock
    /\ \E glob \in GlobArgs, sort_by \in SortArgs, descending \in {TRUE},
          limit \in LimitArgs :
           LET found == IF ensure_workdir_set = "" THEN GlobFiles(glob) ELSE {} IN
           \E scan \in Orders(found), times \in [found -> MtimeArgs] :
               Apply(handle_list_exports(glob, sort_by, descending, limit, scan, times))

ReadExport ==
    /\ clock < MaxClock
    /\ \E name \in ReadArgs, max_bytes \in MaxBytesArgs, as_text \in BOOLEAN :
           Apply(handle_read_export(name, max_bytes, as_text))

PreviewTable ==
    /\ clock < MaxClock
    /\ \E name \in PreviewArgs, max_rows \in MaxRowsArgs :
           Apply(handle_preview_table(name, ",", max_rows))

GgplotStyleCheck ==
    /\ clock < MaxClock
    /\ \E code \in CodeArgs : Apply(handle_ggplot_style_check(code))

InspectRObjects ==
    /\ clock < MaxClock
    /\ \E objects \in ExtraArgs, path_env \in PathEnvs, child \in ChildEnds :
           Apply(handle_inspect_R_objects(objects, path_env, child))

WhichR ==
    /\ clock < MaxClock
    /\ \E path_env \in PathEnvs : Apply(handle_which_R(path_env))

ListRFiles ==
    /\ clock < MaxClock
    /\ Apply(handle_list_R_files)

\* Outside the server: the session root is removed with all it holds
EnvRemoveWorkdir ==
    /\ clock < MaxClock
    /\ IsSet(workdir) /\ PathExists(fs, The(workdir))
    /\ fs' = FsDelTree(fs, The(workdir))
    /\ last' = Res("env_remove_workdir", <<>>, <<>>, TRUE, "")
    /\ UNCHANGED <<workdir, state_dir, state_file, primary_file, cwd, clock,
                   save_pc, save_doc, run, loop>>

\* Outside the server: the state document is overwritten with a text that is
\* no JSON (a cut-off document) or with a JSON array
EnvEditState ==
    /\ clock < MaxClock
    /\ IsSet(state_file) /\ PathIsDir(fs, The(state_dir))
    /\ \E text \in {<<Tok("{")>>, JsonDump(PyList(<<>>))} :
          LET w == WriteText(fs, The(state_file), text) IN
          w.ok /\ fs' = w.fs
    /\ last' = Res("env_edit_state", <<>>, <<>>, TRUE, "")
    /\ UNCHANGED <<workdir, state_dir, state_file, primary_file, cwd, clock,
                   save_pc, save_doc, run, loop>>

\* a call is handled, or the disk changes between two calls
Next ==
    \/ SetWorkdir
    \/ GetState
    \/ CreateRFile
    \/ RenameRFile
    \/ SetPrimaryFile
    \/ AppendRCode
    \/ WriteRCode
    \/ RunRScript
    \/ RunRExpression
    \/ ListExports
    \/ ReadExport
    \/ PreviewTable
    \/ GgplotStyleCheck
    \/ InspectRObjects
    \/ WhichR
    \/ ListRFiles
    \/ EnvRemoveWorkdir
    \/ EnvEditState

Spec == Init /\ [][Next]_vars

----------------------------------------------------------------------------
(* save_state one statement at a time.  A server with its session on ProjDir
   saves one document after the other; each statement of the save is a step,
   any of them may raise, and the process may die between two steps. *)

SaveDir == Append(ProjDir, PILOTR)
SaveFile == Append(SaveDir, STATE_JSON)

\* the document the set_workdir that opened the session saved
SaveDoc0 ==
    DictSet(DictSet(DictSet(EmptyDict, "workdir", ProjDir),
                    "primary_file", DefaultPrimary), "updated_at", 0)

\* the text of the state file, if there is one
Stored(f) ==
    LET r == ReadText(f, SaveFile) IN
    IF r.ok THEN Some(r.data) ELSE NoneV

InitSave ==
    /\ fs \in {MkdirExistOk(InitFs, SaveDir).fs,
               save_state(MkdirExistOk(InitFs, SaveDir).fs, Some(SaveFile), SaveDoc0, "none")}
    /\ workdir = Some(ProjDir)
    /\ state_dir = Some(SaveDir)
    /\ state_file = Some(SaveFile)
    /\ primary_file = DefaultPrimary
    /\ cwd = <<HOME>>
    /\ clock = 0
    /\ save_pc = "idle"
    /\ save_doc = EmptyDict
    /\ run = NoRun
    /\ loop = NoLoop
    /\ last = Res("init", <<>>, <<>>, TRUE, "")

\* a handler calls self.save_state(state) with the loaded document, updated
SaveBegin ==
    /\ save_pc = "idle" /\ clock < MaxClock
    /\ IsSet(state_file)
    /\ \E pf \in {DefaultPrimary, <<"a", ".R">>}, reg \in BOOLEAN :
          LET state == load_state(fs, state_file)
              state1 == IF reg THEN Register(state, pf) ELSE state IN
          save_doc' = DictSet(DictSet(state1, "primary_file", pf), "updated_at", Now)
    /\ save_pc' = "open"
    /\ clock' = clock + 1
    /\ last' = Res("save_state", [before |-> Stored(fs)], <<>>, TRUE, "")
    /\ UNCHANGED <<fs, workdir, state_dir, state_file, primary_file, cwd, run, loop>>

\* open(temp_file, 'w'): the file is made, or cut to nothing
SaveOpen ==
    /\ save_pc = "open"
    /\ LET w == WriteText(fs, temp_file(state_file), <<>>) IN
       /\ fs' = w.fs
       /\ save_pc' = IF w.ok THEN "write" ELSE "except"
    /\ UNCHANGED <<workdir, state_dir, state_file, primary_file, cwd, clock,
                   save_doc, last, run, loop>>

\* json.dump: the next piece of the text reaches the file
SaveWrite ==
    /\ save_pc = "write"
    /\ LET text == JsonDump(save_doc)
           done == ReadText(fs, temp_file(state_file)).data IN
       /\ Len(done) < Len(text)
       /\ fs' = WriteText(fs, temp_file(state_file), Append(done, text[Len(done) + 1])).fs
    /\ UNCHANGED <<workdir, state_dir, state_file, primary_file, cwd, clock,
                   save_pc, save_doc, last, run, loop>>

\* the with block is left: the text is complete and the file closed
SaveClose ==
    /\ save_pc = "write"
    /\ ReadText(fs, temp_file(state_file)).data = JsonDump(save_doc)
    /\ save_pc' = "replace"
    /\ UNCHANGED <<fs, workdir, state_dir, state_file, primary_file, cwd, clock,
                   save_doc, last, run, loop>>

\* temp_file.replace(self.state_file)
SaveReplace ==
    /\ save_pc = "replace"
    /\ LET mv == OsRename(fs, temp_file(state_file), The(state_file)) IN
       /\ fs' = mv.fs
       /\ save_pc' = IF mv.ok THEN "idle" ELSE "except"
       /\ last' = IF mv.ok THEN Saved(last) ELSE last
    /\ UNCHANGED <<workdir, state_dir, state_file, primary_file, cwd, clock, save_doc, run, loop>>

\* open, json.dump or replace raises
SaveRaise ==
    /\ save_pc \in {"open", "write", "replace"}
    /\ save_pc' = "except"
    /\ last' = [last EXCEPT !.out = <<save_pc>>]
    /\ UNCHANGED <<fs, workdir, state_dir, state_file, primary_file, cwd, clock, save_doc, run, loop>>

\* except Exception: the temporary file is removed if it is there
SaveExcept ==
    /\ save_pc = "except"
    /\ fs' = IF PathExists(fs, temp_file(state_file))
             THEN Unlink(fs, temp_file(state_file)).fs ELSE fs
    /\ save_pc' = "idle"
    /\ last' = [last EXCEPT !.ok = FALSE, !.code = "raised"]
    /\ UNCHANGED <<workdir, state_dir, state_file, primary_file, cwd, clock, save_doc, run, loop>>

\* the process dies inside save_state; a new server takes up the directory
SaveCrash ==
    /\ save_pc # "idle"
    /\ save_pc' = "idle"
    /\ last' = [last EXCEPT !.ok = FALSE, !.code = "crash", !.out = <<save_pc>>]
    /\ UNCHANGED <<fs, workdir, state_dir, state_file, primary_file, cwd, clock, save_doc, run, loop>>

NextSave ==
    \/ SaveBegin
    \/ SaveOpen
    \/ SaveWrite
    \/ SaveClose
    \/ SaveReplace
    \/ SaveRaise
    \/ SaveExcept
    \/ SaveCrash

SpecSave == InitSave /\ [][NextSave]_vars

----------------------------------------------------------------------------
(* The State Store on its own: a state file with some content, a mapping a
   handler is about to save, and the two uses the handlers make of
   load_state and save_state. *)

\* the mappings handlers pass to save_state, in a row
TrackFiles(files) == DictSet(DictSet(SaveDoc0, "files", files), "updated_at", 1)
StoreDocs ==
    <<SaveDoc0,
      DictSet(SaveDoc0, "primary_file", <<"a", ".R">>),
      TrackFiles(<<>>),
      TrackFiles(<<<<"a", ".R">>>>),
      TrackFiles(<<<<"a", ".R">>, DefaultPrimary>>),
      DictSet(DictSet(EmptyDict, "files", <<DefaultPrimary>>), "updated_at", 1)>>

\* what the state file may hold, in a row: nothing (no file), documents
\* save_state wrote, a cut-off document, an empty file, a JSON array, a
\* document laid out otherwise, a document that repeats a name
StoreTexts ==
    <<NoneV, Some(JsonDump(EmptyDict))>>
    \o [i \in 1..Len(StoreDocs) |-> Some(JsonDump(StoreDocs[i]))]
    \o <<Some(<<Tok("{")>>), Some(<<>>), Some(JsonDump(PyList(<<>>))),
         Some(<<Tok("{"), WS, PairTok(Item("primary_file", DefaultPrimary)), Tok("}")>>),
         Some(<<Tok("{"), PairTok(Item("primary_file", <<"a", ".R">>)),
                PairTok(Item("updated_at", 0)),
                PairTok(Item("primary_file", DefaultPrimary)), Tok("}")>>)>>

InitStore ==
    /\ \E i \in 1..Len(StoreTexts) :
          fs = IF IsSet(StoreTexts[i])
               THEN WriteText(MkdirExistOk(InitFs, SaveDir).fs, SaveFile,
                              The(StoreTexts[i])).fs
               ELSE MkdirExistOk(InitFs, SaveDir).fs
    /\ workdir = Some(ProjDir)
    /\ state_dir = Some(SaveDir)
    /\ state_file = Some(SaveFile)
    /\ primary_file = DefaultPrimary
    /\ cwd = <<HOME>>
    /\ clock = 0
    /\ save_pc = "idle"
    /\ \E i \in 1..Len(StoreDocs) : save_doc = StoreDocs[i]
    /\ run = NoRun
    /\ loop = NoLoop
    /\ last = Res("init", <<>>, <<>>, TRUE, "")

\* state = self.load_state(); self.save_state(state)
StoreResave ==
    /\ clock < MaxClock
    /\ \E fault \in SaveFaults :
          /\ fs' = save_state(fs, state_file, load_state(fs, state_file), fault)
          /\ last' = Res("resave", [before |-> Stored(fs), fault |-> fault],
                         <<>>, TRUE, "")
    /\ clock' = clock + 1
    /\ UNCHANGED <<workdir, state_dir, state_file, primary_file, cwd, save_pc, save_doc, run, loop>>

\* self.save_state(m); a later self.load_state() reads it back
StoreSave ==
    /\ clock < MaxClock
    /\ \E fault \in SaveFaults :
          /\ fs' = save_state(fs, state_file, save_doc, fault)
          /\ last' = Res("save", [before |-> Stored(fs), fault |-> fault],
                         <<>>, TRUE, "")
    /\ clock' = clock + 1
    /\ UNCHANGED <<workdir, state_dir, state_file, primary_file, cwd, save_pc, save_doc, run, loop>>

NextStore ==
    \/ StoreResave
    \/ StoreSave

SpecStore == InitStore /\ [][NextStore]_vars

----------------------------------------------------------------------------
(* A server started over a project directory an earlier server has used:
   the earlier one selected ProjDir, created a.R (overwriting) and agent.R,
   and left its state document. *)

UsedDoc == DictSet(TrackFiles(<<<<"a", ".R">>, DefaultPrimary>>), "updated_at", 0)

UsedFs ==
    save_state(WriteText(MkdirExistOk(InitFs, SaveDir).fs,
                         Append(ProjDir, DefaultPrimary), R_SCAFFOLD).fs,
               Some(SaveFile), UsedDoc, "none")

InitUsed ==
    /\ fs = UsedFs
    /\ workdir = NoneV
    /\ state_dir = NoneV
    /\ state_file = NoneV
    /\ primary_file = DefaultPrimary
    /\ cwd = <<HOME>>
    /\ clock = 0
    /\ save_pc = "idle"
    /\ save_doc = EmptyDict
    /\ run = NoRun
    /\ loop = NoLoop
    /\ last = Res("init", <<>>, <<>>, TRUE, "")

SpecUsed == InitUsed /\ [][Next]_vars

----------------------------------------------------------------------------
(* What the claims speak of *)

PathTools == {"create_R_file", "rename_R_file", "set_primary_file", "append_R_code",
              "write_R_code", "run_R_script", "read_export", "preview_table"}
MutatingTools == {"set_workdir", "create_R_file", "rename_R_file", "set_primary_file",
                  "append_R_code", "write_R_code"}
OtherTools == {"get_state", "run_R_expression", "list_exports", "ggplot_style_check",
               "inspect_R_objects", "which_R", "list_R_files"}
\* the tools that do not look at the session
FreeTools == {"get_state", "ggplot_style_check", "which_R"}

Session == <<workdir, state_dir, state_file, primary_file>>

\* The file a name given under the root stands for, as the kernel finds it
Target(name) == Stat(fs, Join(The(workdir), name))
Reachable(name) == Target(name).st \in {"ok", "missing"}
Outside(name) == Reachable(name) /\ ~IsRelativeTo(Target(name).path, The(workdir))

\* names to try the guard on: the root itself, plain names, "..", a link,
\* an absolute name, ".." behind a directory
GuardNames ==
    FileArgs \cup {<<>>, <<"a", ".R">>, <<SLASH, "home", SLASH, "secret", ".R">>,
                   <<".pilotr", SLASH, DOTDOT, SLASH, DOTDOT, SLASH, "secret", ".R">>,
                   <<".pilotr", SLASH, DOTDOT, SLASH, "a", ".R">>}

\* C1: the Path Guard accepts a path exactly when the file it stands for,
\* with ".." and symbolic links resolved, is the root or lies below the
\* root; with no root set it accepts nothing.
C1_PathGuard ==
    \A name \in GuardNames :
        IF ~IsSet(workdir) THEN ~is_safe_path(Split(name))
        ELSE Reachable(name) =>
                (is_safe_path(Join(The(workdir), name))
                    <=> IsRelativeTo(Target(name).path, The(workdir)))

\* C1: a call was refused for a link that points out of the root, in a
\* state where a plain name passes the guard
C1_Witness ==
    /\ last.op = "create_R_file" /\ last.code = "UNSAFE_PATH"
    /\ last.names = <<LinkName>>
    /\ Outside(LinkName) /\ Outside(EscapeName)
    /\ is_safe_path(Join(The(workdir), <<"a", ".R">>))

\* C2: a path-taking call made with a valid session and a name that stands
\* for a file outside the root returns UNSAFE_PATH; the call changes no file
\* and no session field, reads no file, starts no child and saves nothing.
C2_UnsafeRejected ==
    [][(/\ last'.op \in PathTools
        /\ ensure_workdir_set = ""
        /\ \E i \in 1..Len(last'.names) : Outside(last'.names[i]))
       => (/\ ~last'.ok /\ last'.code = "UNSAFE_PATH"
           /\ fs' = fs /\ Session' = Session /\ cwd' = cwd
           /\ last'.reads = {} /\ ~last'.launched /\ ~last'.save_called)]_vars

\* C2: a rename was refused because its new name lies outside the root
C2_Witness ==
    /\ last.op = "rename_R_file" /\ last.code = "UNSAFE_PATH"
    /\ last.names = <<<<"a", ".R">>, EscapeName>>
    /\ ~Outside(<<"a", ".R">>) /\ Outside(EscapeName)

\* C3: every row list_exports returns describes a file inside the root.
C3_ListInsideRoot ==
    (last.op = "list_exports" /\ last.ok)
        => \A i \in 1..Len(last.out) : IsRelativeTo(last.out[i].at, The(workdir))

\* C4: set_workdir either succeeds with root, state directory and state file
\* all those of the new root, or fails with the session as it was.
C4_AllOrNothing ==
    [][last'.op = "set_workdir"
       => IF last'.ok
          THEN LET wd == Resolve(fs, last'.args.path).path IN
               /\ workdir' = Some(wd)
               /\ state_dir' = Some(Append(wd, PILOTR))
               /\ state_file' = Some(Append(Append(wd, PILOTR), STATE_JSON))
          ELSE Session' = Session]_vars

\* the state file sf on the disk f holds a document saved at time t
SavedAt(f, sf, t) ==
    /\ IsSet(sf)
    /\ IsDict(load_state(f, sf))
    /\ DictHas(load_state(f, sf), "updated_at")
    /\ DictGet(load_state(f, sf), "updated_at") = t

\* the state document on disk was written by the call that just returned
SavedNow == SavedAt(fs, state_file, clock)

\* C5: after a successful set_workdir the primary file is "agent.R", and so
\* is the primary_file of the document the call saved.
C5_PrimaryReset ==
    (last.op = "set_workdir" /\ last.ok)
        => /\ primary_file = DefaultPrimary
           /\ SavedNow => DictGet(load_state(fs, state_file), "primary_file") = DefaultPrimary

\* some component of p exists and is no directory
Blocked(f, p) ==
    \E i \in 1..Len(p) : Exists0(f, SubSeq(p, 1, i)) /\ KindAt(f, SubSeq(p, 1, i)) # "dir"

\* C6, as stated: a missing path gives DIR_NOT_FOUND without create and is
\* created, the call succeeding, with create; a path that is no directory
\* gives NOT_A_DIR.
C6_AsStated ==
    [][last'.op = "set_workdir"
       => LET wd == Resolve(fs, last'.args.path).path
              there == Stat(fs, wd).st = "ok"
          IN  /\ (~there /\ ~last'.args.create)
                    => (last'.code = "DIR_NOT_FOUND" /\ fs' = fs /\ Session' = Session)
              /\ (~there /\ last'.args.create)
                    => (last'.ok /\ Exists0(fs', wd) /\ KindAt(fs', wd) = "dir")
              /\ (there /\ KindAt(fs, Stat(fs, wd).path) # "dir")
                    => last'.code = "NOT_A_DIR"]_vars

\* C6, amended: with create, a missing path is created with its parents and
\* the call succeeds unless a component of the path is a file, in which case
\* the result is SET_DIR_ERROR and nothing is created or changed.
C6_SelectDirectory ==
    [][last'.op = "set_workdir"
       => LET wd == Resolve(fs, last'.args.path).path
              there == Stat(fs, wd).st = "ok"
          IN  /\ (~there /\ ~last'.args.create)
                    => (last'.code = "DIR_NOT_FOUND" /\ fs' = fs /\ Session' = Session)
              /\ (~there /\ last'.args.create /\ ~Blocked(fs, wd))
                    => (/\ last'.ok /\ workdir' = Some(wd)
                        /\ \A i \in 1..Len(wd) :
                              /\ Exists0(fs', SubSeq(wd, 1, i))
                              /\ KindAt(fs', SubSeq(wd, 1, i)) = "dir")
              /\ (~there /\ last'.args.create /\ Blocked(fs, wd))
                    => (last'.code = "SET_DIR_ERROR" /\ fs' = fs /\ Session' = Session)
              /\ (there /\ KindAt(fs, Stat(fs, wd).path) # "dir")
                    => (last'.code = "NOT_A_DIR" /\ fs' = fs /\ Session' = Session)]_vars

\* C6: the first call of a server made a missing directory its root
C6_Witness ==
    /\ clock = 1 /\ last.op = "set_workdir" /\ last.ok
    /\ last.args.path = NewDir /\ last.args.create
    /\ ~Exists0(InitFs, NewDir) /\ KindAt(fs, NewDir) = "dir"
    /\ workdir = Some(NewDir)

C8_SaveAfterMutation ==
    (last.op \in MutatingTools /\ last.ok) => last.save_called

\* C10: load_state returns a mapping, whatever the state file holds.
C10_LoadReturnsMapping == IsDict(load_state(fs, state_file))

\* C9: at every point of a save the state file holds the complete document
\* it held before the save or the complete new one, and it holds the old
\* one until the rename; a save that raised, or a process that died before
\* the rename, leaves the old one.
C9_AtomicSave ==
    last.op = "save_state"
        => /\ Stored(fs) \in {last.args.before, Some(JsonDump(save_doc))}
           /\ IsSet(Stored(fs)) => JsonLoad(The(Stored(fs))).ok
           /\ (save_pc # "idle" \/ ~last.ok) => Stored(fs) = last.args.before
           /\ last.save_called => Stored(fs) = Some(JsonDump(save_doc))

\* C9: the process died with the temporary file written and not yet
\* renamed, and the state file still holds the older document
C9_Witness ==
    /\ last.op = "save_state" /\ last.code = "crash" /\ last.out = <<"replace">>
    /\ ReadText(fs, temp_file(state_file)).data = JsonDump(save_doc)
    /\ IsSet(last.args.before)
    /\ Stored(fs) = last.args.before
    /\ Stored(fs) # Some(JsonDump(save_doc))

\* C11, as stated: save_state(load_state()) leaves the content of the state
\* file as it was, whatever it was, and load_state after save_state(m)
\* returns m.
C11_AsStated ==
    /\ last.op = "resave" => Stored(fs) = last.args.before
    /\ last.op = "save" => load_state(fs, state_file) = save_doc

\* a text in the form save_state writes: one object or array, laid out as
\* json.dump lays it out, no name twice
WrittenForm(text) ==
    /\ Len(text) >= 2
    /\ \A i \in 1..Len(text) : text[i].t # "ws"
    /\ \/ /\ text[1].t = "{" /\ text[Len(text)].t = "}"
          /\ \A i \in 2..(Len(text) - 1) : text[i].t = "pair"
          /\ \A i, j \in 2..(Len(text) - 1) : text[i].k = text[j].k => i = j
       \/ /\ text[1].t = "[" /\ text[Len(text)].t = "]"
          /\ \A i \in 2..(Len(text) - 1) : text[i].t = "elem"

\* C11, amended: save_state(load_state()) leaves the content unchanged when
\* the file holds a document in the form save_state writes; a missing or
\* unreadable document becomes the document of the empty mapping, and a
\* document in another form is rewritten holding the value that was loaded;
\* a save_state(m) that succeeds is read back by load_state as m, and one
\* that fails leaves the content as it was.
C11_RoundTrip ==
    /\ last.op = "resave" =>
          LET before == last.args.before IN
          IF last.args.fault # "none" THEN Stored(fs) = before
          ELSE IF IsSet(before) /\ WrittenForm(The(before)) THEN Stored(fs) = before
          ELSE IF IsSet(before) /\ JsonLoad(The(before)).ok
          THEN /\ WrittenForm(The(Stored(fs)))
               /\ load_state(fs, state_file) = JsonLoad(The(before)).value
          ELSE Stored(fs) = Some(<<Tok("{"), Tok("}")>>)
    /\ last.op = "save" =>
          IF last.args.fault = "none" THEN load_state(fs, state_file) = save_doc
          ELSE Stored(fs) = last.args.before

\* C11: a document with tracked files was loaded and saved again, and the
\* file holds what it held
C11_Witness ==
    /\ last.op = "resave" /\ last.args.fault = "none"
    /\ IsSet(last.args.before) /\ WrittenForm(The(last.args.before))
    /\ DictHas(load_state(fs, state_file), "files")
    /\ Len(DictGet(load_state(fs, state_file), "files")) = 2
    /\ Stored(fs) = last.args.before

\* the text of the state file sf on the disk f, if there is one
StoredAt(f, sf) ==
    LET r == ReadText(f, The(sf)) IN
    IF r.ok THEN Some(r.data) ELSE NoneV

\* what the call recorded in l leaves when its save meets no failure
Unfailed(l) ==
    CASE l.op = "set_workdir" -> handle_set_workdir(l.args.path, l.args.create, "none")
      [] l.op = "create_R_file" ->
            handle_create_R_file(l.args.filename, l.args.overwrite, l.args.scaffold, "none")
      [] l.op = "rename_R_file" ->
            handle_rename_R_file(l.args.old_name, l.args.new_name, l.args.overwrite, "none")
      [] l.op = "set_primary_file" -> handle_set_primary_file(l.args.filename, "none")
      [] l.op = "write_R_code" ->
            handle_write_R_code(l.args.code, l.args.filename, l.args.overwrite,
                                l.args.use_scaffold_header, "none")

\* the tools that save the state document
SavingTools == MutatingTools \ {"append_R_code"}

\* the paths of the disk f other than the state file sf
Besides(f, sf) == IF IsSet(sf) THEN DOMAIN f \ {The(sf)} ELSE DOMAIN f

\* C12: when the save inside set_workdir, create, rename, set_primary_file
\* or write fails, the call returns ok all the same, the files and the
\* session are those the call leaves when the save succeeds, the state file
\* holds what it held before the call and no temporary file stays behind.
C12_SaveFailureKept ==
    [][(last'.op \in SavingTools /\ last'.save_called
        /\ ~SavedAt(fs', state_file', clock'))
       => LET u == Unfailed(last')
              ufs == u.fs
              rest == Besides(fs', state_file') IN
          /\ last' = u.last /\ last'.ok
          /\ Session' = <<u.workdir, u.state_dir, u.state_file, u.primary_file>>
          /\ rest = Besides(ufs, state_file')
          /\ [p \in rest |-> fs'[p]] = [p \in rest |-> ufs[p]]
          /\ IsSet(state_file')
                => /\ StoredAt(fs', state_file') = StoredAt(fs, state_file')
                   /\ ~Exists0(fs', temp_file(state_file'))]_vars

\* C12: a create wrote its file and returned ok though its save failed
C12_Witness ==
    /\ last.op = "create_R_file" /\ last.ok /\ last.save_called /\ ~SavedNow
    /\ IsSet(state_file) /\ IsSet(StoredAt(fs, state_file))
    /\ PathIsFile(fs, Join(The(workdir), last.names[1]))
    /\ ~PathIsFile(InitFs, Join(The(workdir), last.names[1]))
    /\ ~Exists0(fs, temp_file(state_file))

\* the 'files' list of the state document sf on the disk f
TrackedIn(f, sf) ==
    LET d == load_state(f, sf) IN
    IF IsDict(d) /\ DictHas(d, "files") THEN DictGet(d, "files") ELSE <<>>

Count(seq, x) == Cardinality({i \in 1..Len(seq) : seq[i] = x})
Without(seq, x) == SelectSeq(seq, LAMBDA y : y # x)

\* C13: after a create or write of f (with overwrite) whose save succeeded,
\* f is in the persisted 'files' list exactly once and the other names are
\* in the order they were in.
C13_RegisteredOnce ==
    [][(/\ last'.op \in {"create_R_file", "write_R_code"}
        /\ last'.ok /\ last'.args.overwrite
        /\ SavedAt(fs', state_file', clock'))
       => (/\ Count(TrackedIn(fs', state_file'), last'.names[1]) = 1
           /\ Without(TrackedIn(fs', state_file'), last'.names[1])
                 = Without(TrackedIn(fs, state_file), last'.names[1]))]_vars

\* C14: the persisted 'files' list holds no name twice.
C14_TrackedUnique ==
    IsSet(state_file)
        => \A i, j \in 1..Len(TrackedIn(fs, state_file)) :
              TrackedIn(fs, state_file)[i] = TrackedIn(fs, state_file)[j] => i = j

\* C15: a successful rename of the session's primary file makes the new
\* name the primary file; a successful rename of any other file leaves the
\* primary file as it is.
C15_PrimaryFollowsRename ==
    [][(last'.op = "rename_R_file" /\ last'.ok)
       => IF primary_file = last'.names[1]
          THEN primary_file' = last'.names[2]
          ELSE primary_file' = primary_file]_vars

\* C16: after a successful rename of old to a different name new, the
\* persisted 'files' list the call saved holds new and does not hold old.
C16_TrackedFollowsRename ==
    (/\ last.op = "rename_R_file" /\ last.ok /\ SavedNow
     /\ last.names[1] # last.names[2])
        => /\ ~Contains(TrackedIn(fs, state_file), last.names[1])
           /\ Contains(TrackedIn(fs, state_file), last.names[2])

\* the files and directories of the disk f at or below the directory wd
Below(f, wd) == {p \in DOMAIN f : IsRelativeTo(p, wd)}

\* C17: a create, rename, append or write that returns an error leaves the
\* files of the root, and what they hold, as they were.
C17_ErrorChangesNothing ==
    [][(/\ last'.op \in {"create_R_file", "rename_R_file", "append_R_code", "write_R_code"}
        /\ ~last'.ok /\ IsSet(workdir))
       => (/\ Below(fs', The(workdir)) = Below(fs, The(workdir))
           /\ \A p \in Below(fs, The(workdir)) : fs'[p] = fs[p])]_vars

----------------------------------------------------------------------------
(* The tools that take a file name, called with names of every shape, in a
   session on ProjDir as the server that wrote UsedDoc left it. *)

MaxNameCalls == 2

NameArgs == {<<"foo">>, <<"foo", ".R">>, <<"FOO", ".r">>, <<"a">>, <<"x", ".Rmd">>}
NameOrNone == NameArgs \cup {<<>>}

InitNames ==
    /\ fs = UsedFs
    /\ workdir = Some(ProjDir)
    /\ state_dir = Some(SaveDir)
    /\ state_file = Some(SaveFile)
    /\ primary_file = DefaultPrimary
    /\ cwd = <<HOME>>
    /\ clock = 0
    /\ save_pc = "idle"
    /\ save_doc = EmptyDict
    /\ run = NoRun
    /\ loop = NoLoop
    /\ last = Res("init", <<>>, <<>>, TRUE, "")

NamesCreate ==
    /\ clock < MaxNameCalls
    /\ \E filename \in NameArgs, overwrite \in BOOLEAN :
           Apply(handle_create_R_file(filename, overwrite, TRUE, "none"))

NamesRename ==
    /\ clock < MaxNameCalls
    /\ \E old_name \in NameArgs, new_name \in NameArgs, overwrite \in BOOLEAN :
           Apply(handle_rename_R_file(old_name, new_name, overwrite, "none"))

NamesSetPrimary ==
    /\ clock < MaxNameCalls
    /\ \E filename \in NameArgs : Apply(handle_set_primary_file(filename, "none"))

NamesAppend ==
    /\ clock < MaxNameCalls
    /\ \E filename \in NameOrNone :
           LET r == handle_append_R_code(<<"x">>, filename, TRUE) IN
           /\ r.last.ok => Len(r.last.out.content) <= MaxContent
           /\ Apply(r)

NamesWrite ==
    /\ clock < MaxNameCalls
    /\ \E filename \in NameOrNone, overwrite \in BOOLEAN :
           Apply(handle_write_R_code(<<"x">>, filename, overwrite, FALSE, "none"))

NamesRun ==
    /\ clock < MaxNameCalls
    /\ \E filename \in NameOrNone :
           Apply(handle_run_R_script(filename, <<>>, FALSE, {"Rscript", "R"}, "exit0"))

NextNames ==
    \/ NamesCreate
    \/ NamesRename
    \/ NamesSetPrimary
    \/ NamesAppend
    \/ NamesWrite
    \/ NamesRun

SpecNames == InitNames /\ [][NextNames]_vars

\* the names the call l was given, a missing one read as the primary file
\* of the session, primary
Given(l, primary) ==
    IF l.op = "rename_R_file" THEN <<l.args.old_name, l.args.new_name>>
    ELSE IF l.args.filename = <<>> THEN <<primary>>
    ELSE <<l.args.filename>>

NamingTools == {"create_R_file", "rename_R_file", "set_primary_file",
                "append_R_code", "write_R_code", "run_R_script"}

\* C18: create, rename (old and new name), set_primary_file, append, write
\* and run_script all work on the given name unchanged when it ends in '.R'
\* or '.r' and on the name with '.R' appended otherwise; the name they work
\* on is left alone by the rule, and a successful call has acted on the file
\* of that name in the root.
C18_OneRule ==
    [][last'.op \in NamingTools
       => LET given == Given(last', primary_file)
              root == The(workdir) IN
          /\ Len(last'.names) = Len(given)
          /\ \A i \in 1..Len(given) :
                LET g == given[i]
                    n == last'.names[i] IN
                /\ (Len(g) > 0 /\ g[Len(g)] \in {".R", ".r"}) => n = g
                /\ ~(Len(g) > 0 /\ g[Len(g)] \in {".R", ".r"}) => n = g \o <<".R">>
                /\ NormalizeExt(n) = n
          /\ last'.ok =>
                LET n == last'.names[Len(given)] IN
                /\ PathIsFile(fs', Join(root, n))
                /\ last'.op = "set_primary_file" => primary_file' = n
                /\ (last'.op = "rename_R_file" /\ last'.names[1] # n)
                      => ~PathExists(fs', Join(root, last'.names[1]))
                /\ last'.op \in {"create_R_file", "write_R_code", "append_R_code"}
                      => DOMAIN fs' \subseteq DOMAIN fs \cup {Join(root, n)}]_vars

\* a file created as 'foo' is renamed, by that name, to 'FOO.r'
C18_Witness ==
    /\ last.op = "rename_R_file" /\ last.ok
    /\ last.args.old_name = <<"foo">> /\ last.args.new_name = <<"FOO", ".r">>
    /\ last.names = <<<<"foo", ".R">>, <<"FOO", ".r">>>>
    /\ PathIsFile(fs, Append(ProjDir, <<"FOO", ".r">>))

\* C19: in a session, an append whose target (the given name, or the
\* primary file when none is given) passes the path guard and does not
\* exist returns FILE_NOT_FOUND and leaves the whole disk, the state
\* document included, and the session as they were.
C19_AppendMissing ==
    [][(/\ last'.op = "append_R_code" /\ ensure_workdir_set = ""
        /\ LET target == Join(The(workdir), last'.names[1]) IN
           is_safe_path(target) /\ ~PathExists(fs, target))
       => (/\ ~last'.ok /\ last'.code = "FILE_NOT_FOUND"
           /\ fs' = fs
           /\ Session' = Session)]_vars

\* an append with no file name, to a primary file that does not exist
C19_Witness ==
    /\ last.op = "append_R_code" /\ last.code = "FILE_NOT_FOUND"
    /\ last.args.filename = <<>>
    /\ last.names = <<primary_file>>
    /\ IsSet(workdir) /\ ~PathExists(fs, Join(The(workdir), primary_file))

\* C20: the file a successful write has written ends with a newline,
\* whatever the code and use_scaffold_header; a write to an existing target
\* without overwrite returns FILE_EXISTS and changes nothing on the disk.
C20_WriteEndsNewline ==
    [][last'.op = "write_R_code"
       => LET target == Join(The(workdir), last'.names[1]) IN
          /\ last'.ok => EndsWithNL(ReadText(fs', target).data)
          /\ (/\ ensure_workdir_set = "" /\ is_safe_path(target)
              /\ PathExists(fs, target) /\ ~last'.args.overwrite)
                => (~last'.ok /\ last'.code = "FILE_EXISTS" /\ fs' = fs)]_vars

----------------------------------------------------------------------------
(* The read tools over a session on ProjDir that holds exported files: a
   table, a table of a header alone, an empty file, a table whose first line
   is blank, a file that is no UTF-8 text, and a directory. *)

MaxDataCalls == 1
MaxBytes == 6
MaxRows == 3

TableName == <<"t", ".csv">>
DataArgs == {TableName, <<"h", ".csv">>, <<"e", ".csv">>, <<"b", ".csv">>,
             <<"bad", ".bin">>, <<"out">>, <<"none", ".csv">>}

DataFs ==
    (Append(ProjDir, TableName) :> File(<<"h", NL, "r1", NL, "r2", NL>>))
    @@ (Append(ProjDir, <<"h", ".csv">>) :> File(<<"h", NL>>))
    @@ (Append(ProjDir, <<"e", ".csv">>) :> File(<<>>))
    @@ (Append(ProjDir, <<"b", ".csv">>) :> File(<<NL, "r1", NL, "r2">>))
    @@ (Append(ProjDir, <<"bad", ".bin">>) :> File(<<BAD, "x">>))
    @@ (Append(ProjDir, <<"out">>) :> Dir)
    @@ UsedFs

InitData ==
    /\ fs = DataFs
    /\ workdir = Some(ProjDir)
    /\ state_dir = Some(SaveDir)
    /\ state_file = Some(SaveFile)
    /\ primary_file = DefaultPrimary
    /\ cwd = <<HOME>>
    /\ clock = 0
    /\ save_pc = "idle"
    /\ save_doc = EmptyDict
    /\ run = NoRun
    /\ loop = NoLoop
    /\ last = Res("init", <<>>, <<>>, TRUE, "")

DataRead ==
    /\ clock < MaxDataCalls
    /\ \E name \in DataArgs, max_bytes \in 0..MaxBytes, as_text \in BOOLEAN :
           Apply(handle_read_export(name, max_bytes, as_text))

DataPreview ==
    /\ clock < MaxDataCalls
    /\ \E name \in DataArgs, max_rows \in 0..MaxRows :
           Apply(handle_preview_table(name, ",", max_rows))

NextData ==
    \/ DataRead
    \/ DataPreview

SpecData == InitData /\ [][NextData]_vars

\* the answer l of read_export for target on the disk f, where whole is what
\* a file within max_bytes is answered with
ReadAnswer(l, f, target, whole) ==
    /\ ~PathExists(f, target) => (~l.ok /\ l.code = "FILE_NOT_FOUND")
    /\ (PathExists(f, target) /\ ~PathIsFile(f, target))
          => (~l.ok /\ l.code = "NOT_A_FILE")
    /\ (PathIsFile(f, target) /\ Len(ReadText(f, target).data) > l.args.max_bytes)
          => (~l.ok /\ l.code = "FILE_TOO_LARGE" /\ l.out = <<>> /\ l.reads = {})
    /\ (PathIsFile(f, target) /\ Len(ReadText(f, target).data) <= l.args.max_bytes)
          => whole

\* C21 as stated: a file within max_bytes is always answered with its
\* complete content.
C21_AsStated ==
    [][(last'.op = "read_export" /\ ensure_workdir_set = ""
        /\ is_safe_path(Join(The(workdir), last'.args.name)))
       => LET target == Join(The(workdir), last'.args.name) IN
          ReadAnswer(last', fs, target,
                     last'.ok /\ last'.out = ReadText(fs, target).data)]_vars

\* C21: read_export answers a missing name with FILE_NOT_FOUND, a directory
\* with NOT_A_FILE, a file over max_bytes with FILE_TOO_LARGE and none of its
\* content, and a file within max_bytes either with its complete content or,
\* when it cannot be decoded or read, with DECODE_ERROR or READ_ERROR and no
\* content; the disk is left as it was.
C21_WholeOrReject ==
    [][(last'.op = "read_export" /\ ensure_workdir_set = ""
        /\ is_safe_path(Join(The(workdir), last'.args.name)))
       => LET target == Join(The(workdir), last'.args.name) IN
          /\ ReadAnswer(last', fs, target,
                        \/ last'.ok /\ last'.out = ReadText(fs, target).data
                        \/ /\ ~last'.ok /\ last'.out = <<>>
                           /\ last'.code \in {"DECODE_ERROR", "READ_ERROR"})
          /\ fs' = fs]_vars

\* a file of six bytes is asked for with a limit of three
C21_Witness ==
    /\ last.op = "read_export" /\ last.code = "FILE_TOO_LARGE"
    /\ last.args.name = TableName /\ last.args.max_bytes = 3
    /\ Len(ReadText(fs, Append(ProjDir, TableName)).data) = 6
    /\ last.out = <<>>

Min(a, b) == IF a < b THEN a ELSE b

\* C22: a successful preview_table of a file with a header and N data rows,
\* asked with max_rows = M, returns the first min(N, M) data rows in file
\* order, total_rows = N, displayed_rows = min(N, M) and truncated = (N > M).
C22_PreviewRows ==
    [][(last'.op = "preview_table" /\ last'.ok)
       => LET data_rows == Tail(LinesFrom(ReadText(fs, Join(The(workdir), last'.args.name)).data,
                                          1, <<>>))
              N == Len(data_rows)
              M == last'.args.max_rows
              o == last'.out IN
          /\ Len(o.rows) = Min(N, M)
          /\ \A i \in 1..Len(o.rows) : o.rows[i] = data_rows[i]
          /\ o.total_rows = N
          /\ o.displayed_rows = Min(N, M)
          /\ o.truncated = (N > M)
          /\ M < N => (Len(o.rows) = M /\ o.truncated)]_vars

\* the table of two data rows is previewed with max_rows = 1
C22_Witness ==
    /\ last.op = "preview_table" /\ last.ok
    /\ last.args.name = TableName /\ last.args.max_rows = 1
    /\ last.out.header = <<"h">>
    /\ last.out.rows = <<<<"r1">>>>
    /\ last.out.total_rows = 2 /\ last.out.truncated

----------------------------------------------------------------------------
(* run_r_command step by step, in a session on ProjDir of a server started
   in the home directory.  subprocess.run starts the child, waits for it
   with the timeout and, when the timeout expires, kills the child and waits
   for it before it raises TimeoutExpired. *)

MaxRunCalls == 2

LOADING == "Loading required package: x"
NVB == "no visible binding for y"

\* what a child writes, line by line
StdoutArgs == {<<>>, <<"out">>, <<LOADING, "", "out">>}
StderrArgs == {<<>>, <<NVB, "warn">>}
ReturnCodes == {0, 1}

\* "[line for line in stdout_lines if line and not line.startswith(...)]"
CleanStdout(lines) == SelectSeq(lines, LAMBDA l : l # "" /\ l # LOADING)
\* "[line for line in stderr_lines if line and "no visible binding" not in line]"
CleanStderr(lines) == SelectSeq(lines, LAMBDA l : l # "" /\ l # NVB)

InitRun ==
    /\ fs = UsedFs
    /\ workdir = Some(ProjDir)
    /\ state_dir = Some(SaveDir)
    /\ state_file = Some(SaveFile)
    /\ primary_file = DefaultPrimary
    /\ cwd = <<HOME>>
    /\ clock = 0
    /\ save_pc = "idle"
    /\ save_doc = EmptyDict
    /\ run = NoRun
    /\ loop = NoLoop
    /\ last = Res("init", <<>>, <<>>, TRUE, "")

\* the envelope run_r_command returns
RunResult(ok, code, out) ==
    [Res("run_r_command", [args |-> run.args], <<>>, ok, code) EXCEPT
        !.launched = (run.child.st # "none"), !.out = out]

\* the call returns
RunReturns(res) ==
    /\ last' = res
    /\ run' = [run EXCEPT !.pc = "idle"]
    /\ clock' = clock + 1

\* r_exe = self.find_r_executable(); "if not r_exe: return R_NOT_FOUND"
RunFind ==
    /\ run.pc = "idle" /\ clock < MaxRunCalls
    /\ \E path_env \in PathEnvs :
          LET r_exe == find_r_executable(path_env)
              begun == [NoRun EXCEPT !.args = <<"-e", "x", "--slave">>,
                                        !.path_env = path_env, !.r_exe = r_exe] IN
          IF ~IsSet(r_exe)
          THEN /\ last' = [Res("run_r_command", [args |-> begun.args], <<>>, FALSE,
                               "R_NOT_FOUND") EXCEPT !.out = <<>>]
               /\ run' = begun
               /\ clock' = clock + 1
          ELSE /\ run' = [begun EXCEPT !.pc = "chdir"]
               /\ UNCHANGED <<last, clock>>
    /\ UNCHANGED <<fs, workdir, state_dir, state_file, primary_file, cwd,
                   save_pc, save_doc, loop>>

\* original_cwd = os.getcwd(); if self.workdir: os.chdir(self.workdir)
RunChdir ==
    /\ run.pc = "chdir"
    /\ run' = [run EXCEPT !.pc = "spawn", !.original_cwd = cwd]
    /\ cwd' = IF IsSet(workdir) THEN The(workdir) ELSE cwd
    /\ UNCHANGED <<fs, workdir, state_dir, state_file, primary_file, clock,
                   save_pc, save_doc, last, loop>>

\* subprocess.run starts the child, or fails to (OSError)
RunSpawn ==
    /\ run.pc = "spawn"
    /\ \/ run' = [run EXCEPT !.pc = "wait", !.child.st = "running"]
       \/ run' = [run EXCEPT !.pc = "except"]
    /\ UNCHANGED <<fs, workdir, state_dir, state_file, primary_file, cwd, clock,
                   save_pc, save_doc, last, loop>>

\* the child exits in time and subprocess.run returns what it wrote
ChildExit ==
    /\ run.pc = "wait" /\ run.child.st = "running"
    /\ \E out \in StdoutArgs, err \in StderrArgs, rc \in ReturnCodes :
          run' = [run EXCEPT !.pc = "restore",
                             !.child = [st |-> "exited", stdout |-> out,
                                        stderr |-> err, returncode |-> rc]]
    /\ UNCHANGED <<fs, workdir, state_dir, state_file, primary_file, cwd, clock,
                   save_pc, save_doc, last, loop>>

\* the timeout expires while the child runs
RunTimeout ==
    /\ run.pc = "wait" /\ run.child.st = "running"
    /\ run' = [run EXCEPT !.pc = "kill"]
    /\ UNCHANGED <<fs, workdir, state_dir, state_file, primary_file, cwd, clock,
                   save_pc, save_doc, last, loop>>

\* a wait that raises TimeoutExpired and leaves the child alone
RunKill_raise ==
    /\ run.pc = "kill"
    /\ run' = [run EXCEPT !.pc = "timeout"]
    /\ UNCHANGED <<fs, workdir, state_dir, state_file, primary_file, cwd, clock,
                   save_pc, save_doc, last, loop>>

\* subprocess.run, on TimeoutExpired: process.kill(); process.wait(); raise
RunKill ==
    /\ run.pc = "kill"
    /\ run' = [run EXCEPT !.pc = "timeout", !.child.st = "killed"]
    /\ UNCHANGED <<fs, workdir, state_dir, state_file, primary_file, cwd, clock,
                   save_pc, save_doc, last, loop>>

\* os.chdir(original_cwd), the statement after subprocess.run
RunRestore ==
    /\ run.pc = "restore"
    /\ cwd' = run.original_cwd
    /\ run' = [run EXCEPT !.pc = "result"]
    /\ UNCHANGED <<fs, workdir, state_dir, state_file, primary_file, clock,
                   save_pc, save_doc, last, loop>>

\* a return that does not look at the exit status
RunResultReturn_ok ==
    /\ run.pc = "result"
    /\ RunReturns(RunResult(TRUE, "", [stdout |-> CleanStdout(run.child.stdout),
                                       stderr |-> CleanStderr(run.child.stderr),
                                       returncode |-> run.child.returncode]))
    /\ UNCHANGED <<fs, workdir, state_dir, state_file, primary_file, cwd,
                   save_pc, save_doc, loop>>

\* "if result.returncode != 0: return R_EXECUTION_ERROR ... return ok"
RunResultReturn ==
    /\ run.pc = "result"
    /\ LET out == [stdout |-> CleanStdout(run.child.stdout),
                   stderr |-> CleanStderr(run.child.stderr),
                   returncode |-> run.child.returncode] IN
       IF run.child.returncode # 0
       THEN RunReturns(RunResult(FALSE, "R_EXECUTION_ERROR", out))
       ELSE RunReturns(RunResult(TRUE, "", out))
    /\ UNCHANGED <<fs, workdir, state_dir, state_file, primary_file, cwd,
                   save_pc, save_doc, loop>>

\* "except subprocess.TimeoutExpired: return TIMEOUT"
RunExceptTimeout ==
    /\ run.pc = "timeout"
    /\ RunReturns(RunResult(FALSE, "TIMEOUT", <<>>))
    /\ UNCHANGED <<fs, workdir, state_dir, state_file, primary_file, cwd,
                   save_pc, save_doc, loop>>

\* "except Exception as e: return EXECUTION_ERROR"
RunExcept ==
    /\ run.pc = "except"
    /\ RunReturns(RunResult(FALSE, "EXECUTION_ERROR", <<>>))
    /\ UNCHANGED <<fs, workdir, state_dir, state_file, primary_file, cwd,
                   save_pc, save_doc, loop>>

NextRun ==
    \/ RunFind
    \/ RunChdir
    \/ RunSpawn
    \/ ChildExit
    \/ RunTimeout
    \/ RunKill
    \/ RunRestore
    \/ RunResultReturn
    \/ RunExceptTimeout
    \/ RunExcept

SpecRun == InitRun /\ [][NextRun]_vars

\* C23: when the timeout expires the invocation returns TIMEOUT, with no
\* stdout or stderr in the result; the child is no longer running once the
\* result is returned, and no returned invocation leaves a running child.
C23_TimeoutKillsChild ==
    /\ run.pc = "idle" => run.child.st # "running"
    /\ run.pc = "timeout" => run.child.st = "killed"
    /\ (run.pc = "idle" /\ run.child.st = "killed")
          => (~last.ok /\ last.code = "TIMEOUT" /\ last.out = <<>>)
    /\ (last.op = "run_r_command" /\ last.code = "TIMEOUT" /\ run.pc = "idle")
          => run.child.st = "killed"

\* an invocation has returned TIMEOUT and its child is dead
C23_Witness ==
    /\ run.pc = "idle" /\ last.op = "run_r_command" /\ last.code = "TIMEOUT"
    /\ last.launched /\ run.child.st = "killed" /\ last.out = <<>>

\* the tools that end in run_r_command
RunTools == {"run_R_script", "run_R_expression", "inspect_R_objects"}

\* C24: whatever the outcome of an interpreter invocation, the current
\* directory of the server process is afterwards what it was before the call.
C24_CwdRestored ==
    [][last'.op \in RunTools => cwd' = cwd]_vars

----------------------------------------------------------------------------
(* The dispatch layer: call_tool(name, arguments), for every tool name and a
   name that is none, with argument objects that fit the handler and ones
   that do not.  The server starts over the directory of UsedFs, whose state
   document is as it was left or has been replaced by a JSON array. *)

MaxToolCalls == 2

ToolNames == {"set_workdir", "get_state", "create_R_file", "rename_R_file",
              "set_primary_file", "append_R_code", "write_R_code", "run_R_script",
              "run_R_expression", "list_exports", "read_export", "preview_table",
              "ggplot_style_check", "inspect_R_objects", "which_R", "list_R_files"}
CallNames == ToolNames \cup {"delete_R_file"}

\* argument objects, the second to last with a key no handler has
CallArgs ==
    << <<>>,
       [path |-> ProjDir],
       [filename |-> <<"a">>],
       [old_name |-> <<"a">>, new_name |-> DefaultPrimary, overwrite |-> TRUE],
       [code |-> <<"x">>],
       [name |-> <<"a", ".R">>],
       [filename |-> <<"a">>, force |-> TRUE],
       [expr |-> "x"] >>

\* the parameters of each handler: those without a default, and the others
Required(name) ==
    CASE name = "set_workdir" -> {"path"}
      [] name \in {"create_R_file", "set_primary_file"} -> {"filename"}
      [] name = "rename_R_file" -> {"old_name", "new_name"}
      [] name \in {"append_R_code", "write_R_code", "ggplot_style_check"} -> {"code"}
      [] name = "run_R_expression" -> {"expr"}
      [] name \in {"read_export", "preview_table"} -> {"name"}
      [] OTHER -> {}

Optional(name) ==
    CASE name = "set_workdir" -> {"create"}
      [] name = "create_R_file" -> {"overwrite", "scaffold"}
      [] name = "rename_R_file" -> {"overwrite"}
      [] name = "append_R_code" -> {"filename", "ensure_trailing_newline"}
      [] name = "write_R_code" -> {"filename", "overwrite", "use_scaffold_header"}
      [] name = "run_R_script" -> {"filename", "args", "timeout_sec", "save_rdata"}
      [] name = "run_R_expression" -> {"timeout_sec"}
      [] name = "list_exports" -> {"glob", "sort_by", "descending", "limit"}
      [] name = "read_export" -> {"max_bytes", "as_text", "encoding"}
      [] name = "preview_table" -> {"delimiter", "max_rows"}
      [] name = "inspect_R_objects" -> {"objects", "str_max_level", "timeout_sec"}
      [] OTHER -> {}

\* get_state, which_R and list_R_files are called without the arguments
TakesArguments(name) == name \notin {"get_state", "which_R", "list_R_files"}

\* handler(**arguments) binds: no parameter is missing, no key is unknown
Fits(name, keys) ==
    TakesArguments(name)
        => (Required(name) \subseteq keys /\ keys \subseteq Required(name) \cup Optional(name))

\* arguments[key], or the default of the parameter
Arg(arguments, key, default) ==
    IF key \in DOMAIN arguments THEN arguments[key] ELSE default

\* an exception leaves the try block of call_tool
Raised(name, arguments) == Only(Err(name, arguments, <<>>, "raise"))

\* the try block of call_tool; env is what the call meets outside the server
call_tool_try(name, arguments, env) ==
    LET A(key, default) == Arg(arguments, key, default) IN
    IF name \notin ToolNames THEN Only(Err(name, arguments, <<>>, "UNKNOWN_TOOL"))
    ELSE IF ~Fits(name, DOMAIN arguments) THEN Raised(name, arguments)
    ELSE CASE name = "set_workdir" ->
                handle_set_workdir(arguments.path, A("create", TRUE), env.fault)
           [] name = "get_state" -> handle_get_state
           [] name = "create_R_file" ->
                handle_create_R_file(arguments.filename, A("overwrite", FALSE),
                                     A("scaffold", TRUE), env.fault)
           [] name = "rename_R_file" ->
                handle_rename_R_file(arguments.old_name, arguments.new_name,
                                     A("overwrite", FALSE), env.fault)
           [] name = "set_primary_file" ->
                handle_set_primary_file(arguments.filename, env.fault)
           [] name = "append_R_code" ->
                handle_append_R_code(arguments.code, A("filename", <<>>),
                                     A("ensure_trailing_newline", TRUE))
           [] name = "write_R_code" ->
                handle_write_R_code(arguments.code, A("filename", <<>>),
                                    A("overwrite", FALSE),
                                    A("use_scaffold_header", TRUE), env.fault)
           [] name = "run_R_script" ->
                handle_run_R_script(A("filename", <<>>), A("args", <<>>),
                                    A("save_rdata", TRUE), env.path_env, env.child)
           [] name = "run_R_expression" ->
                handle_run_R_expression(arguments.expr, env.path_env, env.child)
           [] name = "list_exports" ->
                handle_list_exports(A("glob", <<STAR>>), A("sort_by", "mtime"),
                                    A("descending", TRUE), A("limit", 200),
                                    env.scan, env.times)
           [] name = "read_export" ->
                handle_read_export(arguments.name, A("max_bytes", 50000),
                                   A("as_text", TRUE))
           [] name = "preview_table" ->
                handle_preview_table(arguments.name, A("delimiter", ","),
                                     A("max_rows", 50))
           [] name = "ggplot_style_check" -> handle_ggplot_style_check(arguments.code)
           [] name = "inspect_R_objects" ->
                handle_inspect_R_objects(A("objects", <<>>), env.path_env, env.child)
           [] name = "which_R" -> handle_which_R(env.path_env)
           [] name = "list_R_files" -> handle_list_R_files

\* a call_tool without its except clause
call_tool_uncaught(name, arguments, env) == call_tool_try(name, arguments, env)

\* call_tool: "except Exception as e: ... INTERNAL_ERROR"
call_tool(name, arguments, env) ==
    CHOOSE answer \in
        {IF r.last.code = "raise"
         THEN [r EXCEPT !.last = Err(name, arguments, <<>>, "INTERNAL_ERROR")]
         ELSE r : r \in {call_tool_try(name, arguments, env)}} : TRUE

InitCall ==
    /\ fs \in {UsedFs, WriteText(UsedFs, SaveFile, JsonDump(PyList(<<>>))).fs}
    /\ workdir = NoneV
    /\ state_dir = NoneV
    /\ state_file = NoneV
    /\ primary_file = DefaultPrimary
    /\ cwd = <<HOME>>
    /\ clock = 0
    /\ save_pc = "idle"
    /\ save_doc = EmptyDict
    /\ run = NoRun
    /\ loop = NoLoop
    /\ last = Res("init", <<>>, <<>>, TRUE, "")

CallTool ==
    /\ clock < MaxToolCalls
    /\ \E name \in CallNames, i \in 1..Len(CallArgs),
          path_env \in {{}, {"Rscript", "R"}}, child \in {"exit0", "timeout"} :
          LET found == IF name = "list_exports" /\ ensure_workdir_set = ""
                       THEN GlobFiles(<<STAR>>) ELSE {} IN
          \E scan \in Orders(found) :
              Apply(call_tool(name, CallArgs[i],
                              [fault |-> "none", path_env |-> path_env, child |-> child,
                               scan |-> scan, times |-> [p \in found |-> 0]]))

NextCall == CallTool

SpecCall == InitCall /\ [][NextCall]_vars

\* the error codes of the server
ErrorCodes ==
    {"NO_WORKDIR", "WORKDIR_MISSING", "DIR_NOT_FOUND", "NOT_A_DIR", "SET_DIR_ERROR",
     "UNSAFE_PATH", "FILE_EXISTS", "FILE_NOT_FOUND", "NOT_A_FILE", "EMPTY_FILE",
     "NO_RDATA", "FILE_TOO_LARGE", "DECODE_ERROR", "R_NOT_FOUND", "R_EXECUTION_ERROR",
     "TIMEOUT", "EXECUTION_ERROR", "CREATE_ERROR", "RENAME_ERROR", "APPEND_ERROR",
     "WRITE_ERROR", "LIST_ERROR", "READ_ERROR", "PREVIEW_ERROR", "ANALYSIS_ERROR",
     "INTERNAL_ERROR", "UNKNOWN_TOOL"}

\* C25: every call of the dispatch layer, whatever the name and the argument
\* object, returns one envelope that is ok with no error code or not ok with
\* an error code of the server; a name that is no tool gives UNKNOWN_TOOL,
\* arguments the handler cannot bind and an exception that leaves a handler
\* give INTERNAL_ERROR, and the next call can be made.
C25_OneEnvelope ==
    /\ [](clock < MaxToolCalls => ENABLED CallTool)
    /\ [][/\ clock' = clock + 1
          /\ last'.op \in CallNames
          /\ \/ last'.ok /\ last'.code = ""
             \/ ~last'.ok /\ last'.code \in ErrorCodes
          /\ last'.op \notin ToolNames <=> last'.code = "UNKNOWN_TOOL"
          /\ (last'.op \in ToolNames /\ ~Fits(last'.op, DOMAIN last'.args))
                => last'.code = "INTERNAL_ERROR"
          /\ last'.code = "INTERNAL_ERROR"
                => \/ ~Fits(last'.op, DOMAIN last'.args)
                   \/ /\ last'.op \in {"get_state", "set_primary_file"}
                      /\ IsSet(state_file) /\ ~IsDict(load_state(fs, state_file))]_vars

\* set_primary_file raised on a state document that is a JSON array, and
\* the call returned INTERNAL_ERROR
C25_Witness ==
    /\ last.op = "set_primary_file" /\ last.code = "INTERNAL_ERROR" /\ ~last.ok
    /\ Fits(last.op, DOMAIN last.args)
    /\ IsSet(state_file) /\ ~IsDict(load_state(fs, state_file))

\* C26: an invocation that has returned gave R_NOT_FOUND, with no child
\* started, exactly when neither Rscript nor R was found (Rscript is taken
\* when it is there, else R); EXECUTION_ERROR when the child could not be
\* started; TIMEOUT when the child was killed at the timeout;
\* R_EXECUTION_ERROR with the stdout lines, the stderr lines and the exit
\* status when the child exited with a status other than 0; and ok with the
\* lines and returncode 0 when it exited with status 0.  It is ok exactly
\* when the child exited with status 0.
C26_Outcome ==
    (run.pc = "idle" /\ last.op = "run_r_command")
        => LET c == run.child
               lines == [stdout |-> CleanStdout(c.stdout), stderr |-> CleanStderr(c.stderr),
                         returncode |-> c.returncode] IN
           /\ run.r_exe = (IF "Rscript" \in run.path_env THEN <<"Rscript">>
                           ELSE IF "R" \in run.path_env THEN <<"R">> ELSE <<>>)
           /\ last.code = "R_NOT_FOUND" <=> run.path_env \cap {"Rscript", "R"} = {}
           /\ last.code = "R_NOT_FOUND" => (c.st = "none" /\ ~last.launched)
           /\ (run.r_exe # <<>> /\ c.st = "none") <=> last.code = "EXECUTION_ERROR"
           /\ c.st = "killed" <=> last.code = "TIMEOUT"
           /\ (c.st = "exited" /\ c.returncode # 0)
                 <=> (last.code = "R_EXECUTION_ERROR" /\ ~last.ok /\ last.out = lines)
           /\ (c.st = "exited" /\ c.returncode = 0)
                 <=> (last.ok /\ last.out = lines /\ last.out.returncode = 0)
           /\ last.ok <=> (c.st = "exited" /\ c.returncode = 0)

\* a child that wrote to stdout and stderr exited with status 1
C26_Witness ==
    /\ run.pc = "idle" /\ last.op = "run_r_command"
    /\ last.code = "R_EXECUTION_ERROR"
    /\ last.out = [stdout |-> <<"out">>, stderr |-> <<"warn">>, returncode |-> 1]
    /\ run.child.stdout = <<LOADING, "", "out">>

\* C27: run_script starts the interpreter only on a script that passes the
\* path guard and exists, with the arguments --save or --no-save (as
\* save_rdata says), the path of the normalized name (the primary file when
\* none is given) under the root, and then the caller's arguments in their
\* order; a script that passes the guard and does not exist gives
\* FILE_NOT_FOUND and no child.
C27_ScriptCommand ==
    [][last'.op = "run_R_script"
       => LET given == IF last'.args.filename = <<>> THEN primary_file
                       ELSE last'.args.filename
              name == IF Len(given) > 0 /\ given[Len(given)] \in {".R", ".r"}
                      THEN given ELSE given \o <<".R">>
              script == The(workdir) \o Split(name)
              flag == IF last'.args.save_rdata THEN "--save" ELSE "--no-save" IN
          /\ last'.launched
                => /\ ensure_workdir_set = ""
                   /\ is_safe_path(script) /\ PathExists(fs, script)
                   /\ Len(last'.out) = 3 + Len(last'.args.args)
                   /\ last'.out[1] \in {"Rscript", "R"}
                   /\ last'.out[2] = flag
                   /\ last'.out[3] = script
                   /\ SubSeq(last'.out, 4, Len(last'.out)) = last'.args.args
          /\ (ensure_workdir_set = "" /\ is_safe_path(script) /\ ~PathExists(fs, script))
                => (last'.code = "FILE_NOT_FOUND" /\ ~last'.launched)
          /\ (ensure_workdir_set = "" /\ ~is_safe_path(script))
                => (last'.code = "UNSAFE_PATH" /\ ~last'.launched)]_vars

\* the primary file was run with two arguments and without --save
C27_Witness ==
    /\ last.op = "run_R_script" /\ last.launched
    /\ last.args.filename = <<>> /\ ~last.args.save_rdata
    /\ last.args.args = <<"v", "w">>
    /\ last.out = <<"Rscript", "--no-save", Append(ProjDir, primary_file), "v", "w">>

\* the codes of the existence and conflict checks, and of the interpreter
ExistenceCodes == {"FILE_NOT_FOUND", "FILE_EXISTS", "NOT_A_FILE"}
InterpreterCodes == {"R_NOT_FOUND", "TIMEOUT", "R_EXECUTION_ERROR", "EXECUTION_ERROR"}

\* C28: a tool that takes a file name checks the session first, then the
\* path guard, then existence and conflicts, then works: a call in an
\* invalid session returns NO_WORKDIR or WORKDIR_MISSING whatever the name,
\* a call with a name the guard refuses returns UNSAFE_PATH whatever exists,
\* an existence or interpreter error is returned only for names the guard
\* passed, and no file is read or changed and no child started before the
\* guard has passed.
C28_ValidationOrder ==
    [][last'.op \in PathTools
       => LET sess == ensure_workdir_set
              safe == /\ sess = ""
                      /\ \A i \in 1..Len(last'.names) :
                            is_safe_path(Join(The(workdir), last'.names[i]))
              untouched == fs' = fs /\ last'.reads = {} /\ ~last'.launched IN
          /\ sess # "" => (~last'.ok /\ last'.code = sess /\ untouched)
          /\ (sess = "" /\ ~safe) => (~last'.ok /\ last'.code = "UNSAFE_PATH" /\ untouched)
          /\ last'.code \in ExistenceCodes \cup InterpreterCodes => safe
          /\ last'.code \in InterpreterCodes
                => PathExists(fs, Join(The(workdir), last'.names[1]))
          /\ ~untouched => safe]_vars

\* a create without overwrite, of a name that leaves the root for a file
\* that exists, was refused by the guard
C28_Witness ==
    /\ last.op = "create_R_file" /\ last.code = "UNSAFE_PATH"
    /\ last.names = <<EscapeName>> /\ ~last.args.overwrite
    /\ PathExists(fs, Join(The(workdir), EscapeName))

\* C29: in a session whose root holds no .RData, inspect_R_objects returns
\* NO_RDATA, starts no interpreter and changes nothing; it starts an
\* interpreter only when the root holds .RData.
C29_NoSnapshot ==
    [][(last'.op = "inspect_R_objects" /\ ensure_workdir_set = "")
       => LET snapshot == PathExists(fs, Append(The(workdir), RDATA)) IN
          /\ ~snapshot => (/\ ~last'.ok /\ last'.code = "NO_RDATA"
                           /\ ~last'.launched /\ fs' = fs /\ cwd' = cwd)
          /\ last'.launched => snapshot
          /\ last'.code = "NO_RDATA" => ~snapshot]_vars

\* the snapshot a run with --save left is inspected
C29_Witness ==
    /\ last.op = "inspect_R_objects" /\ last.ok /\ last.launched
    /\ PathIsFile(fs, Append(The(workdir), RDATA))

\* C30: a rename whose names pass the guard returns FILE_NOT_FOUND when the
\* old file is absent and FILE_EXISTS when the new one is there and
\* overwrite is false, both without a change; when it succeeds with two
\* different names the old name is gone, the new name holds what the old one
\* held, and every other file, the state document apart, is as it was.
C30_RenameMoves ==
    [][(/\ last'.op = "rename_R_file" /\ ensure_workdir_set = ""
        /\ is_safe_path(Join(The(workdir), last'.names[1]))
        /\ is_safe_path(Join(The(workdir), last'.names[2])))
       => LET old_path == Join(The(workdir), last'.names[1])
              new_path == Join(The(workdir), last'.names[2])
              moved == {old_path, new_path}
                       \cup (IF IsSet(state_file) THEN {The(state_file)} ELSE {})
              others == (DOMAIN fs \cup DOMAIN fs') \ moved IN
          /\ ~PathExists(fs, old_path)
                => (~last'.ok /\ last'.code = "FILE_NOT_FOUND" /\ fs' = fs)
          /\ (PathExists(fs, old_path) /\ PathExists(fs, new_path) /\ ~last'.args.overwrite)
                => (~last'.ok /\ last'.code = "FILE_EXISTS" /\ fs' = fs)
          /\ (last'.ok /\ last'.names[1] # last'.names[2])
                => /\ ~PathExists(fs', old_path)
                   /\ PathExists(fs', new_path)
                   /\ fs'[new_path] = fs[old_path]
                   /\ \A p \in others :
                         p \in DOMAIN fs /\ p \in DOMAIN fs' /\ fs'[p] = fs[p]]_vars

\* a.R was renamed, with overwrite, onto the agent.R the server had created
C30_Witness ==
    /\ last.op = "rename_R_file" /\ last.ok /\ last.args.overwrite
    /\ last.names = <<<<"a", ".R">>, DefaultPrimary>>
    /\ ~PathExists(fs, Append(ProjDir, <<"a", ".R">>))
    /\ ReadText(fs, Append(ProjDir, DefaultPrimary)).data = <<"x">>
    /\ Contains(TrackedIn(fs, state_file), DefaultPrimary)

----------------------------------------------------------------------------
(* Appends to a file of the session on ProjDir whose bytes are any short
   sequence of a character, line feeds, carriage returns and a byte that is
   no text. *)

MaxAppendCalls == 2
MaxOld == 3
MaxCode == 2

RECURSIVE Texts(_, _)
\* the sequences over alphabet of length n or less
Texts(alphabet, n) ==
    IF n = 0 THEN {<<>>}
    ELSE LET shorter == Texts(alphabet, n - 1) IN
         shorter \cup {Append(t, c) : t \in shorter, c \in alphabet}

AppendTarget == Append(ProjDir, <<"a", ".R">>)

InitAppend ==
    /\ \E old \in Texts({"x", NL, CR, BAD}, MaxOld) :
           fs = FsPut(UsedFs, AppendTarget, File(old))
    /\ workdir = Some(ProjDir)
    /\ state_dir = Some(SaveDir)
    /\ state_file = Some(SaveFile)
    /\ primary_file = DefaultPrimary
    /\ cwd = <<HOME>>
    /\ clock = 0
    /\ save_pc = "idle"
    /\ save_doc = EmptyDict
    /\ run = NoRun
    /\ loop = NoLoop
    /\ last = Res("init", <<>>, <<>>, TRUE, "")

AppendText ==
    /\ clock < MaxAppendCalls
    /\ \E code \in Texts({"y", NL}, MaxCode), etn \in BOOLEAN :
           Apply(handle_append_R_code(code, <<"a">>, etn))

NextAppend == AppendText

SpecAppend == InitAppend /\ [][NextAppend]_vars

\* old is a prefix of new
IsPrefix(old, new) ==
    Len(old) <= Len(new) /\ SubSeq(new, 1, Len(old)) = old

\* C31: after a successful append the file holds its old content, then a
\* newline if the old content was not empty and did not end with one, then
\* the code, then a newline if ensure_trailing_newline is set and the code
\* did not end with one; the old content is a prefix of the new content and
\* total_lines is the number of lines of the new content.
C31_AppendKeeps ==
    [][(last'.op = "append_R_code" /\ last'.ok)
       => LET target == Join(The(workdir), last'.names[1])
              old == ReadText(fs, target).data
              new == ReadText(fs', target).data
              code == last'.args.code
              sep == IF old # <<>> /\ ~EndsWithNL(old) THEN <<NL>> ELSE <<>>
              trail == IF last'.args.ensure_trailing_newline /\ ~EndsWithNL(code)
                       THEN <<NL>> ELSE <<>>
          IN  /\ new = old \o sep \o code \o trail
              /\ IsPrefix(old, new)
              /\ last'.out.total_lines = CountLines(new)]_vars

ReadOnlyTools == {"get_state", "list_R_files", "list_exports", "read_export",
                  "preview_table", "ggplot_style_check", "which_R"}

\* C32: get_state, list_R_files, list_exports, read_export, preview_table,
\* ggplot_style_check and which_R leave, for every input and every outcome,
\* the session fields, the state document and every file of the disk as
\* they were.
C32_ReadOnly ==
    [][last'.op \in ReadOnlyTools => (Session' = Session /\ fs' = fs)]_vars

\* a read of a file of the root in a session that has a state document
C32_Witness ==
    /\ last.op = "read_export" /\ last.ok /\ last.reads # {}
    /\ IsSet(state_file) /\ PathIsFile(fs, The(state_file))

----------------------------------------------------------------------------
(* The event loop of asyncio.run(main()).  Requests that have arrived are
   tasks; one thread runs them, and a task keeps the thread until its
   coroutine awaits something that is not done.  call_tool awaits nothing
   but the handler's coroutine, no handler holds an await, and
   run_r_command waits for its child inside the synchronous subprocess.run.
   Here every request has already arrived when the first one is taken up. *)

MaxTasks == 3

LoopOps == {"run_R_expression", "set_primary_file"}
LoopNames == {<<"a", ".R">>, <<"none", ".R">>}

\* a request that has arrived and has not been taken up
NewTask ==
    [pc |-> "ready", op |-> "", name |-> <<>>, original_cwd |-> <<>>,
     child |-> "none", ok |-> TRUE, code |-> ""]

InitLoop ==
    /\ fs = UsedFs
    /\ workdir = Some(ProjDir)
    /\ state_dir = Some(SaveDir)
    /\ state_file = Some(SaveFile)
    /\ primary_file = DefaultPrimary
    /\ cwd = <<HOME>>
    /\ clock = 0
    /\ save_pc = "idle"
    /\ save_doc = EmptyDict
    /\ run = NoRun
    /\ loop = [running |-> 0, tasks |-> [t \in 1..MaxTasks |-> NewTask]]
    /\ last = Res("init", <<>>, <<>>, TRUE, "")

\* the task that holds the thread is at pc
At(t, pc) == loop.running = t /\ loop.tasks[t].pc = pc

\* the task goes on and keeps the thread
Goes(t, task) == loop' = [loop EXCEPT !.tasks[t] = task]

\* the handler has its answer
Answers(t, ok, code) ==
    Goes(t, [loop.tasks[t] EXCEPT !.pc = "return", !.ok = ok, !.code = code])

\* The loop, with no task on the thread, takes up a request: call_tool is
\* entered and awaits the handler's coroutine, which starts at once
LoopDispatch ==
    /\ loop.running = 0
    /\ \E t \in 1..MaxTasks, op \in LoopOps, name \in LoopNames :
          /\ loop.tasks[t].pc = "ready"
          /\ loop' = [running |-> t,
                      tasks |-> [loop.tasks EXCEPT
                                   ![t] = [NewTask EXCEPT !.pc = "handler", !.op = op,
                                                          !.name = name]]]
    /\ UNCHANGED <<fs, workdir, state_dir, state_file, primary_file, cwd, clock,
                   save_pc, save_doc, run, last>>

\* run_r_command: find_r_executable, os.getcwd() and os.chdir(self.workdir)
TaskChdir ==
    /\ \E t \in 1..MaxTasks, path_env \in PathEnvs :
          /\ At(t, "handler") /\ loop.tasks[t].op = "run_R_expression"
          /\ IF ~IsSet(find_r_executable(path_env))
             THEN Answers(t, FALSE, "R_NOT_FOUND") /\ cwd' = cwd
             ELSE /\ Goes(t, [loop.tasks[t] EXCEPT !.pc = "spawn", !.original_cwd = cwd])
                  /\ cwd' = The(workdir)
    /\ UNCHANGED <<fs, workdir, state_dir, state_file, primary_file, clock,
                   save_pc, save_doc, run, last>>

\* a launch with asyncio.create_subprocess_exec, awaited: the task leaves the
\* thread to the loop while its child runs
TaskSpawn_async ==
    /\ \E t \in 1..MaxTasks :
          /\ At(t, "spawn")
          /\ loop' = [running |-> 0,
                      tasks |-> [loop.tasks EXCEPT ![t].pc = "wait",
                                                   ![t].child = "running"]]
    /\ UNCHANGED <<fs, workdir, state_dir, state_file, primary_file, cwd, clock,
                   save_pc, save_doc, run, last>>

\* subprocess.run starts the child and blocks the thread, or raises OSError
TaskSpawn ==
    /\ \E t \in 1..MaxTasks :
          /\ At(t, "spawn")
          /\ \/ Goes(t, [loop.tasks[t] EXCEPT !.pc = "wait", !.child = "running"])
             \/ Answers(t, FALSE, "EXECUTION_ERROR")
    /\ UNCHANGED <<fs, workdir, state_dir, state_file, primary_file, cwd, clock,
                   save_pc, save_doc, run, last>>

\* the child exits in time and subprocess.run returns
TaskChildExit ==
    /\ \E t \in 1..MaxTasks, rc \in ReturnCodes :
          /\ At(t, "wait") /\ loop.tasks[t].child = "running"
          /\ Goes(t, [loop.tasks[t] EXCEPT
                        !.pc = "restore", !.child = "exited", !.ok = (rc = 0),
                        !.code = IF rc = 0 THEN "" ELSE "R_EXECUTION_ERROR"])
    /\ UNCHANGED <<fs, workdir, state_dir, state_file, primary_file, cwd, clock,
                   save_pc, save_doc, run, last>>

\* the timeout expires: subprocess.run kills the child and raises, and the
\* except clause answers TIMEOUT
TaskTimeout ==
    /\ \E t \in 1..MaxTasks :
          /\ At(t, "wait") /\ loop.tasks[t].child = "running"
          /\ Goes(t, [loop.tasks[t] EXCEPT !.pc = "return", !.child = "killed",
                                           !.ok = FALSE, !.code = "TIMEOUT"])
    /\ UNCHANGED <<fs, workdir, state_dir, state_file, primary_file, cwd, clock,
                   save_pc, save_doc, run, last>>

\* os.chdir(original_cwd)
TaskRestore ==
    /\ \E t \in 1..MaxTasks :
          /\ At(t, "restore")
          /\ cwd' = loop.tasks[t].original_cwd
          /\ Goes(t, [loop.tasks[t] EXCEPT !.pc = "return"])
    /\ UNCHANGED <<fs, workdir, state_dir, state_file, primary_file, clock,
                   save_pc, save_doc, run, last>>

\* handle_set_primary_file up to "self.primary_file = filename"
TaskAssign ==
    /\ \E t \in 1..MaxTasks :
          /\ At(t, "handler") /\ loop.tasks[t].op = "set_primary_file"
          /\ IF ~PathExists(fs, Join(The(workdir), loop.tasks[t].name))
             THEN Answers(t, FALSE, "FILE_NOT_FOUND") /\ primary_file' = primary_file
             ELSE /\ primary_file' = loop.tasks[t].name
                  /\ Goes(t, [loop.tasks[t] EXCEPT !.pc = "save"])
    /\ UNCHANGED <<fs, workdir, state_dir, state_file, cwd, clock,
                   save_pc, save_doc, run, last>>

\* handle_set_primary_file from load_state to save_state
TaskSave ==
    /\ \E t \in 1..MaxTasks :
          /\ At(t, "save")
          /\ LET state == load_state(fs, state_file) IN
             fs' = save_state(fs, state_file,
                              DictSet(DictSet(state, "primary_file", primary_file),
                                      "updated_at", Now), "none")
          /\ Answers(t, TRUE, "")
    /\ UNCHANGED <<workdir, state_dir, state_file, primary_file, cwd, clock,
                   save_pc, save_doc, run, last>>

\* the handler returns, call_tool returns its envelope and the task ends
TaskReturn ==
    /\ \E t \in 1..MaxTasks :
          /\ At(t, "return")
          /\ last' = [Res(loop.tasks[t].op, <<>>, <<loop.tasks[t].name>>,
                          loop.tasks[t].ok, loop.tasks[t].code)
                        EXCEPT !.launched = (loop.tasks[t].child # "none")]
          /\ loop' = [running |-> 0, tasks |-> [loop.tasks EXCEPT ![t].pc = "done"]]
    /\ clock' = clock + 1
    /\ UNCHANGED <<fs, workdir, state_dir, state_file, primary_file, cwd,
                   save_pc, save_doc, run>>

NextLoop ==
    \/ LoopDispatch
    \/ TaskChdir
    \/ TaskSpawn
    \/ TaskChildExit
    \/ TaskTimeout
    \/ TaskRestore
    \/ TaskAssign
    \/ TaskSave
    \/ TaskReturn

SpecLoop == InitLoop /\ [][NextLoop]_vars

\* the requests whose handler has begun and has not returned
InProgress == {t \in DOMAIN loop.tasks : loop.tasks[t].pc \notin {"ready", "done"}}

\* C33: operations are processed one at a time to completion: at no time
\* are two operations in progress or two interpreter children running, and
\* an operation in progress is the one that holds the thread, so that no
\* other operation sees the current directory, the session fields or the
\* state document between its steps.
C33_OneAtATime ==
    /\ Cardinality(InProgress) <= 1
    /\ Cardinality({t \in DOMAIN loop.tasks : loop.tasks[t].child = "running"}) <= 1
    /\ \A t \in InProgress : loop.running = t

\* an interpreter child runs, in the session root, for one request while the
\* other requests that have arrived wait, one of them already answered
C33_Witness ==
    /\ \E t \in InProgress : loop.tasks[t].child = "running"
    /\ \E t \in DOMAIN loop.tasks : loop.tasks[t].pc = "ready"
    /\ \E t \in DOMAIN loop.tasks : loop.tasks[t].pc = "done"
    /\ cwd = ProjDir

----------------------------------------------------------------------------
(* list_exports over a session on ProjDir that holds three files, two of
   them of one size, enumerated in any order and with any times. *)

MaxListCalls == 1
MaxMtime == 1

ListSortArgs == {"mtime", "size", "name"}
ListLimitArgs == {-1, 0, 1, 2, 200}

ListFs == FsPut(UsedFs, Append(ProjDir, DefaultPrimary), File(<<"x", NL>>))

InitList ==
    /\ fs = ListFs
    /\ workdir = Some(ProjDir)
    /\ state_dir = Some(SaveDir)
    /\ state_file = Some(SaveFile)
    /\ primary_file = DefaultPrimary
    /\ cwd = <<HOME>>
    /\ clock = 0
    /\ save_pc = "idle"
    /\ save_doc = EmptyDict
    /\ run = NoRun
    /\ loop = NoLoop
    /\ last = Res("init", <<>>, <<>>, TRUE, "")

\* a call to list_exports; the envelope is kept with the enumeration and the
\* times the call met
ListSorted ==
    /\ clock < MaxListCalls
    /\ \E sort_by \in ListSortArgs, descending \in BOOLEAN, limit \in ListLimitArgs :
          LET found == GlobFiles(<<STAR>>) IN
          \E scan \in Orders(found), times \in [found -> 0..MaxMtime] :
             LET r == handle_list_exports(<<STAR>>, sort_by, descending, limit,
                                          scan, times) IN
             Apply([r EXCEPT !.last.args =
                      [glob |-> <<STAR>>, sort_by |-> sort_by,
                       descending |-> descending, limit |-> limit,
                       scan |-> scan, times |-> times]])

NextList == ListSorted

SpecList == InitList /\ [][NextList]_vars

\* the place of the file called name in the enumeration scan
Nth(scan, name) == CHOOSE i \in 1..Len(scan) : Last(scan[i]) = name

\* C34: the entries list_exports returns are in non-increasing order of the
\* selected key when descending is true and in non-decreasing order when it
\* is false, entries of equal key in the order of enumeration; they are the
\* first min(limit, number of matches) of the matches in that order.
C34_Sorted ==
    [][(last'.op = "list_exports" /\ last'.ok)
       => LET a == last'.args
              out == last'.out
              rows == [i \in 1..Len(a.scan) |->
                         ExportRow(fs, a.scan[i], a.times[a.scan[i]])]
              Key(r) == SortKey(r, a.sort_by)
              \* r comes before q in the stated order
              Precedes(r, q) ==
                  \/ (a.descending /\ Key(r) > Key(q))
                  \/ (~a.descending /\ Key(r) < Key(q))
                  \/ (Key(r) = Key(q) /\ Nth(a.scan, r.name) < Nth(a.scan, q.name))
              Returned(r) == \E i \in 1..Len(out) : out[i] = r
          IN  /\ Len(out) = Min(a.limit, Len(rows))
              /\ \A i \in 1..Len(out) : \E k \in 1..Len(rows) : rows[k] = out[i]
              /\ \A i, j \in 1..Len(out) : i < j => Precedes(out[i], out[j])
              /\ \A k \in 1..Len(rows), i \in 1..Len(out) :
                    ~Returned(rows[k]) => Precedes(out[i], rows[k])]_vars

\* the state document sf on the disk f is a mapping whose primary_file is name
PersistedPrimary(f, sf, name) ==
    /\ IsSet(sf)
    /\ PathExists(f, The(sf))
    /\ IsDict(load_state(f, sf))
    /\ DictHas(load_state(f, sf), "primary_file")
    /\ DictGet(load_state(f, sf), "primary_file") = name

PrimaryErrors == {"NO_WORKDIR", "WORKDIR_MISSING", "UNSAFE_PATH", "FILE_NOT_FOUND"}

\* C35 as stated: a set_primary_file succeeds only if the normalized name
\* exists under the root; after a success the session's primary file and
\* the primary_file of the state document are the normalized name; after
\* NO_WORKDIR, WORKDIR_MISSING, UNSAFE_PATH or FILE_NOT_FOUND the session's
\* primary file and the disk are as before.
C35_AsStated ==
    [][last'.op = "set_primary_file"
       => LET name == NormalizeExt(last'.args.filename) IN
          /\ last'.ok => /\ PathExists(fs, Join(The(workdir), name))
                         /\ primary_file' = name
                         /\ PersistedPrimary(fs', state_file', name)
          /\ (~last'.ok /\ last'.code \in PrimaryErrors)
                => (primary_file' = primary_file /\ fs' = fs)]_vars

\* C35: the same, where after a success the state document holds the
\* normalized name as primary_file when the call's save has written it, and
\* the disk is as before when the save has failed or the session has no
\* state file.
C35_SetPrimary ==
    [][last'.op = "set_primary_file"
       => LET name == NormalizeExt(last'.args.filename) IN
          /\ last'.ok => /\ PathExists(fs, Join(The(workdir), name))
                         /\ primary_file' = name
                         /\ IF SavedAt(fs', state_file', clock')
                            THEN PersistedPrimary(fs', state_file', name)
                            ELSE fs' = fs
          /\ (~last'.ok /\ last'.code \in PrimaryErrors)
                => (primary_file' = primary_file /\ fs' = fs)]_vars

\* a set_primary_file that has made another file the primary and saved it
C35_Witness ==
    /\ last.op = "set_primary_file" /\ last.ok /\ SavedNow
    /\ primary_file = <<"a", ".R">>
    /\ PersistedPrimary(fs, state_file, primary_file)

----------------------------------------------------------------------------
(* Call sequences in which every save of the state document succeeds and
   nothing but the server touches the disk. *)

MaxAgreeCalls == 3

AgreeSetWorkdir ==
    /\ clock < MaxAgreeCalls
    /\ \E path \in DirArgs, create \in BOOLEAN :
           Apply(handle_set_workdir(path, create, "none"))

AgreeCreate ==
    /\ clock < MaxAgreeCalls
    /\ \E filename \in FileArgs, overwrite \in BOOLEAN, scaffold \in BOOLEAN :
           Apply(handle_create_R_file(filename, overwrite, scaffold, "none"))

AgreeRename ==
    /\ clock < MaxAgreeCalls
    /\ \E old_name \in RenameOldArgs, new_name \in RenameNewArgs, overwrite \in BOOLEAN :
           Apply(handle_rename_R_file(old_name, new_name, overwrite, "none"))

AgreeSetPrimary ==
    /\ clock < MaxAgreeCalls
    /\ \E filename \in FileArgs :
           Apply(handle_set_primary_file(filename, "none"))

AgreeWrite ==
    /\ clock < MaxAgreeCalls
    /\ \E code \in CodeArgs, filename \in WriteFileArgs, overwrite \in BOOLEAN,
          header \in BOOLEAN :
           Apply(handle_write_R_code(code, filename, overwrite, header, "none"))

AgreeAppend ==
    /\ clock < MaxAgreeCalls
    /\ \E filename \in AppendFileArgs, etn \in BOOLEAN :
           LET r == handle_append_R_code(<<"x">>, filename, etn) IN
           /\ r.last.ok => Len(r.last.out.content) <= MaxContent
           /\ Apply(r)

NextAgree ==
    \/ AgreeSetWorkdir
    \/ AgreeCreate
    \/ AgreeRename
    \/ AgreeSetPrimary
    \/ AgreeWrite
    \/ AgreeAppend

SpecAgree == Init /\ [][NextAgree]_vars

\* C36: when every save succeeds and the document is not edited from
\* outside, once a root is set the state file is <root>/.pilotr/state.json,
\* the document there is a mapping whose 'workdir' is the root and whose
\* 'primary_file' is the session's primary file; and a set_workdir on a
\* directory that has a state document keeps the 'files' list of it.
C36_Agreement ==
    /\ [](IsSet(workdir)
            => /\ state_file = Some(Append(Append(The(workdir), PILOTR), STATE_JSON))
               /\ PersistedPrimary(fs, state_file, primary_file)
               /\ DictHas(load_state(fs, state_file), "workdir")
               /\ DictGet(load_state(fs, state_file), "workdir") = The(workdir))
    /\ [][(last'.op = "set_workdir" /\ last'.ok /\ PathExists(fs, The(state_file')))
          => TrackedIn(fs', state_file') = TrackedIn(fs, state_file')]_vars

====
